---- MODULE Spec2Model ----
(***************************************************************************)
(* Model of the daily-notes-to-journal plugin: the Scheduler's batch       *)
(* driver (processNotes / processLatestNote), the shared AIService         *)
(* request layer (makeHttpRequest, handleApiError) and the note scan.      *)
(*                                                                         *)
(* The program runs on a single-threaded event loop: every action below    *)
(* is one synchronous segment of a handler, from one await to the next.    *)
(***************************************************************************)
EXTENDS Integers, Sequences, FiniteSets, TLC

\* ------------------------------------------------------------------ bounds
MaxNotes == 2
MaxCalls == 2
MaxRetries == 6
MaxLines == 3
MaxPieces == 2
MaxSaves == 2

\* ------------------------------------------------------- program constants
DefaultRetries == 3
DefaultTimeoutMs == 30000
OllamaTimeoutMs == 60000
OllamaTestTimeoutMs == 5000
BaseDelayMs == 1000
MaxDelayMs == 10000
MaxLatitude == 90
MaxLongitude == 180
MinLineLength == 5

Notes == 1..MaxNotes
Calls == 1..MaxCalls

Providers == {"openai", "gemini", "ollama"}
ProviderValues == Providers \cup {"other"}

\* HTTP statuses a backend may answer with besides success.
Statuses == {"401", "403", "429", "500", "404"}

VARIABLES
  aiProvider,      \* settings.aiProvider
  noteEntries,     \* per source note: number of entries parseLogEntries finds
  journals,        \* the destination paths at which a document exists
  isProcessing,    \* Scheduler.isProcessing
  lastProcessed,   \* Scheduler.lastProcessingTime !== null
  pc,              \* per invocation: the await it is suspended at
  kind,            \* per invocation: which entry point was called
  notes,           \* per invocation: unprocessedNotes (the scan's list)
  idx,             \* per invocation: position of the for-loop
  processedCount,  \* per invocation: processedCount
  errors,          \* per invocation: errors
  attempted,       \* per invocation: notes whose AI call was issued, in order
  result,          \* per invocation: the returned ProcessingResult / outcome
  req,             \* per invocation: the makeHttpRequest activation
  response,        \* per invocation: the JSON body received, then the validated text
  dateFormat,      \* settings.dateFormat
  journalFileNameFormat,  \* settings.journalFileNameFormat
  fileName,        \* per source note: the date fields written in its file name
  unreadable,      \* the source notes whose reading throws
  lifecycle,       \* the plugin: "loaded" after onload, "unloaded" after onunload
  checkFrequency,  \* settings.checkFrequency, in minutes
  intervalId,      \* Scheduler.intervalId: null, or the interval timer it names
  initialRuns,     \* the 5 s timeouts of start() that have not fired yet
  saves,           \* the saveSettings calls awaiting saveData, oldest first
  model,           \* settings.aiConfig.model
  apiKey,          \* settings.aiConfig.apiKey is not empty
  endpoint,        \* settings.aiConfig.endpoint is not empty
  shown,           \* the options of the settings tab's model dropdown
  fetches,         \* the providers whose model-list fetch is in flight
  input,           \* the argument of a text function under study
  output           \* what the function returned for it

\* The formats and the source folder's files.
fileVars == <<dateFormat, journalFileNameFormat, fileName, unreadable>>

\* The plugin's lifecycle, the scheduler's timers and the pending saves.
timerVars == <<lifecycle, checkFrequency, intervalId, initialRuns, saves>>

\* The AI configuration and the settings tab's model dropdown.
tabVars == <<model, apiKey, endpoint, shown, fetches>>

\* Settings, files, timers and the settings tab: the steps of a run and of
\* the request layer leave them alone.
settingsVars == <<fileVars, timerVars, tabVars>>

textVars == <<input, output>>

\* No text function has been called, or it has not returned.
NotApplied == [fn |-> "none"]

vars == <<aiProvider, noteEntries, journals, isProcessing, lastProcessed, pc, kind,
          notes, idx, processedCount, errors, attempted, result, req, response,
          settingsVars, textVars>>

Min(a, b) == IF a < b THEN a ELSE b

RECURSIVE Pow2(_)
Pow2(n) == IF n <= 0 THEN 1 ELSE 2 * Pow2(n - 1)

\* ---------------------------------------------------------- error messages
\* An Error's message is modelled by the substrings handleApiError looks for.
HttpError(status) == [text |-> "HTTP", tokens |-> {status}]
NetworkError == [text |-> "Failed to fetch", tokens |-> {}]
AbortError == [text |-> "AbortError", tokens |-> {}]
TimeoutError == [text |-> "Request timeout after", tokens |-> {"timeout"}]
EnvelopeError == [text |-> "Empty response", tokens |-> {}]
NoError == [text |-> "", tokens |-> {}]

Includes(message, needle) == needle \in message.tokens

\* The error a failed fetch attempt raises inside the retry loop.
AttemptError(f) ==
  IF f = "network" THEN NetworkError
  ELSE IF f = "abort" THEN AbortError
  ELSE HttpError(f)

\* makeHttpRequest's outer catch: an AbortError becomes a timeout error,
\* anything else is rethrown unchanged.
OuterCatch(error) == IF error.text = "AbortError" THEN TimeoutError ELSE error

\* handleApiError: the user-facing message selected from the error's text.
HandleApiError(error) ==
  IF Includes(error, "timeout") THEN "timed out"
  ELSE IF Includes(error, "401") \/ Includes(error, "403") THEN "authentication failed"
  ELSE IF Includes(error, "429") THEN "rate limit exceeded"
  ELSE IF Includes(error, "500") \/ Includes(error, "502") \/ Includes(error, "503")
    THEN "server error"
  ELSE "error"

\* Variant: the backoff is not capped.
RetryDelayUncapped(attempt) == BaseDelayMs * Pow2(attempt - 1)

\* Backoff before the retry that follows failed attempt number `attempt`.
RetryDelay(attempt) == Min(BaseDelayMs * Pow2(attempt - 1), MaxDelayMs)


\* --------------------------------------------------------- makeHttpRequest
\* One activation of makeHttpRequest: the loop counter, the AbortController
\* and its timer, plus an observer's log: the first and the latest failed
\* attempt ("" when none) and the sleeps so far.
IdleReq ==
  [phase |-> "none", attempt |-> 0, retries |-> 0, timeoutMs |-> 0,
   timerArmed |-> FALSE, aborted |-> FALSE, deadlinePassed |-> FALSE,
   firstFail |-> "", lastFail |-> "", waits |-> <<>>, thrown |-> NoError]

\* Entry: create the controller, arm the timer, issue attempt 1.
NewReq(retries, timeoutMs) ==
  [phase |-> "fetching", attempt |-> 1, retries |-> retries, timeoutMs |-> timeoutMs,
   timerArmed |-> TRUE, aborted |-> FALSE, deadlinePassed |-> FALSE,
   firstFail |-> "", lastFail |-> "", waits |-> <<>>, thrown |-> NoError]

\* Variant: the error of the first failed attempt is the one rethrown.
FinalFailureFirst(q, f) ==
  LET first == IF q.firstFail = "" THEN f ELSE q.firstFail IN
  [q EXCEPT !.phase = "rejected", !.timerArmed = FALSE,
            !.firstFail = first,
            !.lastFail = f,
            !.thrown = OuterCatch(AttemptError(first))]

\* The last attempt failed with failure f: the inner catch rethrows, the outer
\* catch clears the timer and maps an AbortError to a timeout error.
FinalFailure(q, f) ==
  [q EXCEPT !.phase = "rejected", !.timerArmed = FALSE,
            !.firstFail = IF q.firstFail = "" THEN f ELSE q.firstFail,
            !.lastFail = f,
            !.thrown = OuterCatch(AttemptError(f))]

\* A non-final attempt failed: sleep(delay) before the next one.
Backoff(q, f) ==
  [q EXCEPT !.phase = "sleeping",
            !.firstFail = IF q.firstFail = "" THEN f ELSE q.firstFail,
            !.lastFail = f,
            !.waits = Append(q.waits, RetryDelay(q.attempt))]

\* fetch() resolved with response.ok: clearTimeout, return the response.
OnResponseOk(q) == [q EXCEPT !.phase = "resolved", !.timerArmed = FALSE]

\* Variant: authentication failures are not retried.
OnResponseStatusNoRetryAuth(q, status) ==
  LET cleared == [q EXCEPT !.timerArmed = FALSE] IN
  IF q.attempt = q.retries \/ status \in {"401", "403"}
  THEN [cleared EXCEPT !.phase = "rejected",
                       !.firstFail = IF q.firstFail = "" THEN status ELSE q.firstFail,
                       !.lastFail = status,
                       !.thrown = HttpError(status)]
  ELSE [cleared EXCEPT !.phase = "sleeping",
                       !.firstFail = IF q.firstFail = "" THEN status ELSE q.firstFail,
                       !.lastFail = status,
                       !.waits = Append(q.waits, RetryDelay(q.attempt))]

\* fetch() resolved with a non-success status: clearTimeout, then either
\* throw (final attempt) or back off and continue.
OnResponseStatus(q, status) ==
  LET cleared == [q EXCEPT !.timerArmed = FALSE] IN
  IF q.attempt = q.retries THEN FinalFailure(cleared, status)
  ELSE Backoff(cleared, status)

\* fetch() rejected (network failure, or AbortError): the inner catch; the
\* timer is left as it is unless this was the final attempt.
OnReject(q, f) ==
  IF q.attempt = q.retries THEN FinalFailure(q, f) ELSE Backoff(q, f)

\* sleep() resolved: next iteration of the for-loop issues the next fetch.
OnWake(q) ==
  [q EXCEPT !.phase = "fetching", !.attempt = q.attempt + 1]

\* The configured timeout has elapsed since the call began: the timer
\* callback runs controller.abort() if the timer is still armed.
OnDeadline(q) ==
  [q EXCEPT !.deadlinePassed = TRUE,
            !.aborted = q.aborted \/ q.timerArmed,
            !.timerArmed = FALSE]

\* processContent's arguments to makeHttpRequest, per backend.
GenerationTimeout(provider) ==
  IF provider = "ollama" THEN OllamaTimeoutMs ELSE DefaultTimeoutMs

\* ------------------------------------------------------------------ text
\* A string is a sequence of characters; these are the ones trim() removes.
Whitespace == {" ", "\n"}

RECURSIVE TrimStart(_)
TrimStart(s) ==
  IF s # <<>> /\ Head(s) \in Whitespace THEN TrimStart(Tail(s)) ELSE s

RECURSIVE TrimEnd(_)
TrimEnd(s) ==
  IF s # <<>> /\ s[Len(s)] \in Whitespace THEN TrimEnd(SubSeq(s, 1, Len(s) - 1))
  ELSE s

\* String.prototype.trim
Trim(s) == TrimEnd(TrimStart(s))

RECURSIVE Split(_)
\* split('\n'): the lines of a string (one empty line for the empty string).
Split(s) ==
  IF \A k \in 1..Len(s) : s[k] # "\n" THEN <<s>>
  ELSE LET k == CHOOSE j \in 1..Len(s) : s[j] = "\n" /\ \A i \in 1..(j - 1) : s[i] # "\n"
       IN <<SubSeq(s, 1, k - 1)>> \o Split(SubSeq(s, k + 1, Len(s)))

RECURSIVE Join(_)
\* join('\n')
Join(lines) ==
  IF lines = <<>> THEN <<>>
  ELSE IF Len(lines) = 1 THEN lines[1]
  ELSE lines[1] \o <<"\n">> \o Join(Tail(lines))

\* ------------------------------------------------------------- sentiment
\* A response is a string over single characters and whole words; the words
\* are the ones the sentiment pattern looks at.
validSentiments == <<"Very Happy", "Happy", "Neutral", "Sad", "Very Sad">>

\* toLowerCase on the words that occur.
ToLowerCase(w) ==
  CASE w \in {"SENTIMENT:", "Sentiment:"} -> "sentiment:"
    [] w \in {"Very Happy", "VERY HAPPY"} -> "very happy"
    [] w \in {"Happy", "HAPPY"} -> "happy"
    [] w = "Neutral" -> "neutral"
    [] w \in {"Sad", "SAD"} -> "sad"
    [] w \in {"Very Sad", "VERY SAD"} -> "very sad"
    [] w = "Glad" -> "glad"
    [] OTHER -> w

\* line.match(/^SENTIMENT:\s*(Very Happy|Happy|Neutral|Sad|Very Sad)$/i):
\* the captured label, or "" when the line does not match.
SentimentMatch(line) ==
  IF line = <<>> \/ ToLowerCase(Head(line)) # "sentiment:" THEN ""
  ELSE LET rest == TrimStart(Tail(line)) IN
       IF Len(rest) = 1
          /\ \E k \in 1..Len(validSentiments) :
               ToLowerCase(validSentiments[k]) = ToLowerCase(rest[1])
       THEN rest[1] ELSE ""

\* validSentiments.find(s => s.toLowerCase() === parsed.toLowerCase())
NormalizedSentiment(parsed) ==
  LET hits == {k \in 1..Len(validSentiments) :
                 ToLowerCase(validSentiments[k]) = ToLowerCase(parsed)}
  IN IF hits = {} THEN ""
     ELSE validSentiments[CHOOSE k \in hits : \A j \in hits : k <= j]

\* Variant: the lines are scanned from the first one down.
FirstSentimentLine(lines, i) ==
  LET Scan[k \in 1..(Len(lines) + 1)] ==
        IF k > Len(lines) THEN 0
        ELSE IF NormalizedSentiment(SentimentMatch(Trim(lines[k]))) # "" THEN k
        ELSE Scan[k + 1]
  IN Scan[1]

RECURSIVE LastSentimentLine(_, _)
\* The for-loop from the last line to the first: the index (from 1) of the
\* line it breaks at, 0 when it runs to the end.
LastSentimentLine(lines, i) ==
  IF i = 0 THEN 0
  ELSE IF NormalizedSentiment(SentimentMatch(Trim(lines[i]))) # "" THEN i
  ELSE LastSentimentLine(lines, i - 1)

\* parseSentimentFromResponse
ParseSentimentFromResponse(text) ==
  LET lines == Split(Trim(text))
      i == LastSentimentLine(lines, Len(lines))
  IN IF i = 0 THEN [content |-> Trim(text), sentiment |-> "Neutral"]
     ELSE [content |-> Trim(Join(SubSeq(lines, 1, i - 1))),
           sentiment |-> NormalizedSentiment(SentimentMatch(Trim(lines[i])))]

\* ----------------------------------------------------------- coordinates
\* A text is a string over single characters and whole words; a number
\* (\d+\.?\d*) is one word, its sign a character of its own.
NumberWords == {"40.7128", "74.0060", "90.5", "200"}

\* Numbers are kept in units of 1/10000 degree.
DegreeUnits == 10000

\* parseFloat of a number word.
NumberValue(word) ==
  CASE word = "40.7128" -> 407128
    [] word = "74.0060" -> 740060
    [] word = "90.5" -> 905000
    [] word = "200" -> 2000000

\* parseFloat of a captured group: an optional minus sign and a number word.
ParseFloat(group) ==
  IF Head(group) = "-" THEN 0 - NumberValue(group[2]) ELSE NumberValue(group[1])

\* One element of a pattern: the characters it accepts, its quantifier
\* ("1", "?" or "*") and the capture group it belongs to (0: none).
El(cls, q, g) == [cls |-> cls, q |-> q, g |-> g]

\* (-?\d+\.?\d*) as capture group g
SignedNumber(g) == <<El({"-"}, "?", g), El(NumberWords, "1", g)>>

\* ,\s*
CommaSpace == <<El({","}, "1", 0), El(Whitespace, "*", 0)>>

\* The six patterns, in the order they are tried. The i flag is spelled out
\* in the character classes.
COORDINATE_PATTERNS ==
  << <<El({"["}, "1", 0)>> \o SignedNumber(1) \o CommaSpace \o SignedNumber(2)
        \o <<El({"]"}, "1", 0)>>,
     <<El({"("}, "1", 0)>> \o SignedNumber(1) \o CommaSpace \o SignedNumber(2)
        \o <<El({")"}, "1", 0)>>,
     SignedNumber(1) \o CommaSpace \o SignedNumber(2),
     <<El(NumberWords, "1", 1), El({"°"}, "?", 0), El(Whitespace, "*", 0),
       El({"N", "S", "n", "s"}, "1", 2), El(Whitespace, "*", 0), El({","}, "?", 0),
       El(Whitespace, "*", 0), El(NumberWords, "1", 3), El({"°"}, "?", 0),
       El(Whitespace, "*", 0), El({"E", "W", "e", "w"}, "1", 4)>>,
     <<El({"GPS:", "gps:"}, "1", 0), El(Whitespace, "*", 0)>>
        \o SignedNumber(1) \o CommaSpace \o SignedNumber(2),
     <<El({"Location:", "location:"}, "1", 0), El(Whitespace, "*", 0)>>
        \o SignedNumber(1) \o CommaSpace \o SignedNumber(2) >>

NoCaptures == [g \in 1..4 |-> <<>>]

NoMatch == [ok |-> FALSE, end |-> 0, caps |-> NoCaptures]

RECURSIVE MatchFrom(_, _, _, _, _)
\* The pattern's elements from the k-th on matched against the text from
\* position p on (greedy; no element can give back what the next one needs).
MatchFrom(pattern, k, text, p, caps) ==
  IF k > Len(pattern) THEN [ok |-> TRUE, end |-> p - 1, caps |-> caps]
  ELSE LET e == pattern[k]
           hit == p <= Len(text) /\ text[p] \in e.cls
           taken == IF hit /\ e.g > 0
                    THEN [caps EXCEPT ![e.g] = Append(@, text[p])] ELSE caps
       IN IF hit THEN MatchFrom(pattern, IF e.q = "*" THEN k ELSE k + 1, text, p + 1, taken)
          ELSE IF e.q = "1" THEN NoMatch
          ELSE MatchFrom(pattern, k + 1, text, p, caps)

RECURSIVE ExecAll(_, _, _)
\* The regex.exec loop of a global pattern: its matches from position `from`
\* on, left to right, each search resuming after the previous match.
ExecAll(pattern, text, from) ==
  IF from > Len(text) THEN <<>>
  ELSE LET m == MatchFrom(pattern, 1, text, from, NoCaptures) IN
       IF m.ok
       THEN <<[raw |-> SubSeq(text, from, m.end), caps |-> m.caps,
               groups |-> IF m.caps[3] = <<>> THEN 2 ELSE 4]>>
              \o ExecAll(pattern, text, m.end + 1)
       ELSE ExecAll(pattern, text, from + 1)

\* toUpperCase of a hemisphere letter.
ToUpperCase(letter) ==
  CASE letter = "n" -> "N" [] letter = "s" -> "S" [] letter = "e" -> "E"
    [] letter = "w" -> "W" [] OTHER -> letter

\* Variant: every parsed pair is accepted.
IsValidCoordinateAny(lat, lng) == TRUE

\* isValidCoordinate
IsValidCoordinate(lat, lng) ==
  /\ lat >= 0 - MaxLatitude * DegreeUnits /\ lat <= MaxLatitude * DegreeUnits
  /\ lng >= 0 - MaxLongitude * DegreeUnits /\ lng <= MaxLongitude * DegreeUnits

\* The latitude and longitude of a match: two groups are the two numbers;
\* four groups are number, hemisphere, number, hemisphere.
MatchLat(m) ==
  IF m.groups = 2 THEN ParseFloat(m.caps[1])
  ELSE IF ToUpperCase(m.caps[2][1]) = "S" THEN 0 - ParseFloat(m.caps[1])
  ELSE ParseFloat(m.caps[1])

MatchLng(m) ==
  IF m.groups = 2 THEN ParseFloat(m.caps[2])
  ELSE IF ToUpperCase(m.caps[4][1]) = "W" THEN 0 - ParseFloat(m.caps[3])
  ELSE ParseFloat(m.caps[3])

\* Variant: a raw string seen before is processed again.
AlreadyProcessedNever(raw, processedRaws) == FALSE

\* processedRaws.has(raw)
AlreadyProcessed(raw, processedRaws) == raw \in processedRaws

RECURSIVE PushMatches(_, _, _, _)
\* The body of the while loop for the matches from the i-th on: skip a raw
\* string seen before, otherwise remember it and push the pair if valid.
PushMatches(matches, i, processedRaws, coordinates) ==
  IF i > Len(matches) THEN coordinates
  ELSE LET m == matches[i] IN
       IF AlreadyProcessed(m.raw, processedRaws)
       THEN PushMatches(matches, i + 1, processedRaws, coordinates)
       ELSE PushMatches(matches, i + 1, processedRaws \cup {m.raw},
              IF IsValidCoordinate(MatchLat(m), MatchLng(m))
              THEN Append(coordinates,
                          [lat |-> MatchLat(m), lng |-> MatchLng(m), raw |-> m.raw])
              ELSE coordinates)

RECURSIVE AllMatches(_, _)
\* The matches of the patterns from the k-th on, pattern after pattern.
AllMatches(text, k) ==
  IF k > Len(COORDINATE_PATTERNS) THEN <<>>
  ELSE ExecAll(COORDINATE_PATTERNS[k], text, 1) \o AllMatches(text, k + 1)

\* extractCoordinates
ExtractCoordinates(text) == PushMatches(AllMatches(text, 1), 1, {}, <<>>)

RECURSIVE Replace(_, _, _)
\* String.prototype.replace(pattern, '') with a global pattern: the text
\* from position `from` on without the pattern's matches.
Replace(pattern, text, from) ==
  IF from > Len(text) THEN <<>>
  ELSE LET m == MatchFrom(pattern, 1, text, from, NoCaptures) IN
       IF m.ok THEN Replace(pattern, text, m.end + 1)
       ELSE <<text[from]>> \o Replace(pattern, text, from + 1)

RECURSIVE RemovePatterns(_, _)
\* The for loop of removeCoordinatesFromContent from the k-th pattern on:
\* the pattern's matches are removed and the result trimmed.
RemovePatterns(text, k) ==
  IF k > Len(COORDINATE_PATTERNS) THEN text
  ELSE RemovePatterns(Trim(Replace(COORDINATE_PATTERNS[k], text, 1)), k + 1)

RECURSIVE CollapseWhitespace(_)
\* replace(/\s+/g, ' '): every run of whitespace becomes one space.
CollapseWhitespace(s) ==
  IF s = <<>> THEN <<>>
  ELSE IF Head(s) \in Whitespace THEN <<" ">> \o CollapseWhitespace(TrimStart(s))
  ELSE <<Head(s)>> \o CollapseWhitespace(Tail(s))

RECURSIVE CollapseEmptyLines(_)
\* replace(/\n\s*\n/g, '\n'): a line break, whitespace and a further line
\* break become one line break (the whitespace run is taken up to its last
\* line break).
CollapseEmptyLines(s) ==
  IF s = <<>> THEN <<>>
  ELSE LET run == Len(Tail(s)) - Len(TrimStart(Tail(s)))
           breaks == {k \in 2..(1 + run) : s[k] = "\n"}
       IN IF Head(s) = "\n" /\ breaks # {}
          THEN LET last == CHOOSE k \in breaks : \A j \in breaks : j <= k
               IN <<"\n">> \o CollapseEmptyLines(SubSeq(s, last + 1, Len(s)))
          ELSE <<Head(s)>> \o CollapseEmptyLines(Tail(s))

\* removeCoordinatesFromContent
RemoveCoordinatesFromContent(content) ==
  Trim(CollapseEmptyLines(CollapseWhitespace(RemovePatterns(content, 1))))

\* The number of characters of a word of the texts (a string is a sequence
\* of single characters and of whole words).
WordLength(w) ==
  CASE w \in {"Location:", "location:"} -> 9
    [] w \in {"40.7128", "74.0060", "Visited"} -> 7
    [] w \in {"Second"} -> 6
    [] w \in {"today", "entry"} -> 5
    [] w \in {"90.5", "GPS:", "gps:"} -> 4
    [] w \in {"200"} -> 3
    [] w \in {"1."} -> 2
    [] OTHER -> 1

RECURSIVE Length(_)
\* String.prototype.length
Length(s) == IF s = <<>> THEN 0 ELSE WordLength(Head(s)) + Length(Tail(s))

\* String.prototype.startsWith
StartsWith(s, prefix) ==
  Len(s) >= Len(prefix) /\ SubSeq(s, 1, Len(prefix)) = prefix

\* replace(pattern, '') with a pattern anchored at the start of the line.
RemovePrefix(pattern, s) ==
  LET m == MatchFrom(pattern, 1, s, 1, NoCaptures) IN
  IF m.ok THEN SubSeq(s, m.end + 1, Len(s)) ELSE s

\* /^[-*+]\s*/, /^\d+\.\s*/ (a list number such as "1." is one word),
\* /^- \[[x\s]\]\s*/, /^\[\s*\]\s*/ and /^\[x\]\s*/, in the order applied.
MarkdownPrefixes ==
  << <<El({"-", "*", "+"}, "1", 0), El(Whitespace, "*", 0)>>,
     <<El({"1."}, "1", 0), El(Whitespace, "*", 0)>>,
     <<El({"-"}, "1", 0), El({" "}, "1", 0), El({"["}, "1", 0),
       El({"x"} \cup Whitespace, "1", 0), El({"]"}, "1", 0), El(Whitespace, "*", 0)>>,
     <<El({"["}, "1", 0), El(Whitespace, "*", 0), El({"]"}, "1", 0),
       El(Whitespace, "*", 0)>>,
     <<El({"["}, "1", 0), El({"x"}, "1", 0), El({"]"}, "1", 0),
       El(Whitespace, "*", 0)>> >>

RECURSIVE CleanLine(_, _)
\* The chain of replace calls from the k-th prefix on, then trim.
CleanLine(line, k) ==
  IF k > Len(MarkdownPrefixes) THEN Trim(line)
  ELSE CleanLine(RemovePrefix(MarkdownPrefixes[k], line), k + 1)

\* coordinates: undefined, of an entry whose line has none.
Undefined == [lat |-> 0, lng |-> 0, raw |-> <<>>]

\* The body of the for loop of parseLogEntries: the entries the line adds.
LineEntries(line) ==
  LET trimmedLine == Trim(line)
      cleanLine == CleanLine(trimmedLine, 1)
      lineCoordinates == ExtractCoordinates(cleanLine)
      cleanContent == RemoveCoordinatesFromContent(cleanLine)
  IN IF \/ trimmedLine = <<>>
        \/ StartsWith(trimmedLine, <<"#">>)
        \/ StartsWith(trimmedLine, <<"-", "-", "-">>)
        \/ StartsWith(trimmedLine, <<"<", "!", "-", "-">>)
        \/ Length(trimmedLine) < MinLineLength
     THEN <<>>
     ELSE IF Length(cleanLine) < MinLineLength THEN <<>>
     ELSE IF Length(Trim(cleanContent)) > 0
     THEN <<[content |-> Trim(cleanContent),
             coordinates |-> IF Len(lineCoordinates) > 0 THEN lineCoordinates[1]
                             ELSE Undefined]>>
     ELSE <<>>

RECURSIVE EntriesOf(_)
\* The for loop of parseLogEntries over the lines.
EntriesOf(lines) ==
  IF lines = <<>> THEN <<>> ELSE LineEntries(Head(lines)) \o EntriesOf(Tail(lines))

\* parseLogEntries, for a note without a frontmatter block (parseFrontmatter
\* returns the content as body).
ParseLogEntries(content) == EntriesOf(Split(content))

\* formatCoordinatesForYaml: the keys of the YAML text it returns.
FormatCoordinatesForYaml(coordinates) ==
  IF Len(coordinates) = 0 THEN {}
  ELSE IF Len(coordinates) = 1 THEN {"location"}
  ELSE {"locations"}

\* Variant: the coordinates always go under a locations list.
LocationFrontmatterAsList(coordinates) ==
  IF Len(coordinates) > 0
  THEN [key |-> "locations",
        values |-> [k \in 1..Len(coordinates) |->
                      <<coordinates[k].lat, coordinates[k].lng>>]]
  ELSE [key |-> "none", values |-> <<>>]

\* formatJournalContent: the location key of the frontmatter, and the
\* pairs under it.
LocationFrontmatter(coordinates) ==
  IF Len(coordinates) > 0 /\ FormatCoordinatesForYaml(coordinates) # {}
  THEN IF Len(coordinates) = 1
       THEN [key |-> "location",
             values |-> <<<<coordinates[1].lat, coordinates[1].lng>>>>]
       ELSE [key |-> "locations",
             values |-> [k \in 1..Len(coordinates) |->
                           <<coordinates[k].lat, coordinates[k].lng>>]]
  ELSE [key |-> "none", values |-> <<>>]

\* parseDailyNote's entries and coordinates and, from createJournalEntry,
\* which hands the note's coordinates on, the frontmatter of the document.
GeneratedDocument(content) ==
  [entries |-> ParseLogEntries(content),
   coordinates |-> ExtractCoordinates(content),
   frontmatter |-> LocationFrontmatter(ExtractCoordinates(content))]

\* `${coord.lat}`: the text of a number (JavaScript writes no trailing zero).
NumberText(value) ==
  LET magnitude == IF value < 0 THEN 0 - value ELSE value
      digits == CASE magnitude = 407128 -> <<"40.7128">>
                  [] magnitude = 740060 -> <<"74.006">>
                  [] magnitude = 905000 -> <<"90.5">>
                  [] magnitude = 2000000 -> <<"200">>
                  [] OTHER -> <<"0">>
  IN IF value < 0 THEN <<"-">> \o digits ELSE digits

\* `[${coord.lat}, ${coord.lng}]`
LocationText(pair) ==
  <<"[">> \o NumberText(pair[1]) \o <<",", " ">> \o NumberText(pair[2]) \o <<"]">>

\* A frontmatter value: a string or an array of strings.
StringValue(text) == [isArray |-> FALSE, text |-> text, items |-> <<>>]
ArrayValue(items) == [isArray |-> TRUE, text |-> <<>>, items |-> items]

\* The lines stringifyYaml pushes for one entry of the object.
YamlLines(key, value) ==
  IF ~value.isArray THEN << <<key, ":", " ", "\"">> \o value.text \o <<"\"">> >>
  ELSE << <<key, ":">> >>
         \o [k \in 1..Len(value.items) |->
               <<" ", " ", "-", " ", "\"">> \o value.items[k] \o <<"\"">>]

RECURSIVE AllYamlLines(_)
\* The for loop of stringifyYaml over the object's entries, in key order.
AllYamlLines(frontmatter) ==
  IF frontmatter = <<>> THEN <<>>
  ELSE YamlLines(frontmatter[1][1], frontmatter[1][2]) \o AllYamlLines(Tail(frontmatter))

\* stringifyYaml
StringifyYaml(frontmatter) == Join(AllYamlLines(frontmatter))

\* addFrontmatter
AddFrontmatter(content, frontmatter) ==
  IF frontmatter = <<>> THEN content
  ELSE <<"---", "\n">> \o StringifyYaml(frontmatter) \o <<"\n", "---", "\n", "\n">>
         \o content

RECURSIVE SkipBreaks(_)
\* The text after the line breaks it starts with.
SkipBreaks(s) == IF s # <<>> /\ Head(s) = "\n" THEN SkipBreaks(Tail(s)) ELSE s

RECURSIVE CollapseNewlines(_)
\* replace(/\n{3,}/g, '\n\n'): a run of three or more line breaks becomes two.
CollapseNewlines(s) ==
  IF s = <<>> THEN <<>>
  ELSE IF Len(s) >= 3 /\ s[1] = "\n" /\ s[2] = "\n" /\ s[3] = "\n"
  THEN <<"\n", "\n">> \o CollapseNewlines(SkipBreaks(s))
  ELSE <<Head(s)>> \o CollapseNewlines(Tail(s))

\* The frontmatter object of formatJournalContent: its entries in the order
\* the keys are set (sentiment only when truthy).
Frontmatter(journalEntry) ==
  LET location == LocationFrontmatter(journalEntry.coordinates) IN
  << <<"date", StringValue(journalEntry.date)>>,
     <<"source", StringValue(journalEntry.sourceFile)>>,
     <<"created", StringValue(<<"now">>)>> >>
    \o (IF journalEntry.sentiment # <<>>
        THEN << <<"sentiment", StringValue(journalEntry.sentiment)>> >> ELSE <<>>)
    \o (IF location.key = "location"
        THEN << <<"location", StringValue(LocationText(location.values[1]))>> >>
        ELSE IF location.key = "locations"
        THEN << <<"locations",
                  ArrayValue([k \in 1..Len(location.values) |->
                                LocationText(location.values[k])])>> >>
        ELSE <<>>)

\* formatJournalContent
FormatJournalContent(journalEntry) ==
  LET content == CollapseNewlines(journalEntry.content)
      finalContent == IF journalEntry.title # <<>>
                      THEN <<"#", " ">> \o journalEntry.title \o <<"\n", "\n">> \o content
                      ELSE content
  IN AddFrontmatter(finalContent, Frontmatter(journalEntry))

\* ------------------------------------------------------ filename rendering
\* In this part a string is the sequence of its characters.
Digits == <<"0", "1", "2", "3", "4", "5", "6", "7", "8", "9">>

RECURSIVE NumberToString(_)
\* Number.prototype.toString of a natural number.
NumberToString(n) ==
  IF n < 10 THEN <<Digits[n + 1]>> ELSE NumberToString(n \div 10) \o <<Digits[(n % 10) + 1]>>

\* padStart(2, '0')
PadStart(s) == IF Len(s) < 2 THEN <<"0">> \o s ELSE s

\* slice(-2)
SliceLastTwo(s) == IF Len(s) <= 2 THEN s ELSE SubSeq(s, Len(s) - 1, Len(s))

monthNames ==
  <<<<"J", "a", "n", "u", "a", "r", "y">>, <<"F", "e", "b", "r", "u", "a", "r", "y">>,
    <<"M", "a", "r", "c", "h">>, <<"A", "p", "r", "i", "l">>, <<"M", "a", "y">>,
    <<"J", "u", "n", "e">>, <<"J", "u", "l", "y">>, <<"A", "u", "g", "u", "s", "t">>,
    <<"S", "e", "p", "t", "e", "m", "b", "e", "r">>,
    <<"O", "c", "t", "o", "b", "e", "r">>, <<"N", "o", "v", "e", "m", "b", "e", "r">>,
    <<"D", "e", "c", "e", "m", "b", "e", "r">>>>

monthNamesShort == [k \in 1..12 |-> SubSeq(monthNames[k], 1, 3)]

dayNames ==
  <<<<"S", "u", "n", "d", "a", "y">>, <<"M", "o", "n", "d", "a", "y">>,
    <<"T", "u", "e", "s", "d", "a", "y">>,
    <<"W", "e", "d", "n", "e", "s", "d", "a", "y">>,
    <<"T", "h", "u", "r", "s", "d", "a", "y">>, <<"F", "r", "i", "d", "a", "y">>,
    <<"S", "a", "t", "u", "r", "d", "a", "y">>>>

dayNamesShort == [k \in 1..7 |-> SubSeq(dayNames[k], 1, 3)]

\* The local calendar fields of a Date of the year 2025: getFullYear,
\* getMonth() + 1, getDate, getHours, getMinutes, getSeconds.
MonthLengths == <<31, 28, 31, 30, 31, 30, 31, 31, 30, 31, 30, 31>>

RECURSIVE DaysBefore(_)
\* The days of 2025 before the first of the month.
DaysBefore(month) ==
  IF month = 1 THEN 0 ELSE DaysBefore(month - 1) + MonthLengths[month - 1]

\* getDay(): 0 is Sunday; the first of January 2025 is a Wednesday.
GetDay(date) == (3 + DaysBefore(date.month) + date.day - 1) % 7

\* hours % 12 || 12
TwelveHour(hours) == IF hours % 12 = 0 THEN 12 ELSE hours % 12

\* The tokens, as written in templates.
YYYY == <<"Y", "Y", "Y", "Y">>
YY == <<"Y", "Y">>
MMMM == <<"M", "M", "M", "M">>
MMM == <<"M", "M", "M">>
MM == <<"M", "M">>
DD == <<"D", "D">>
HH == <<"H", "H">>
hh == <<"h", "h">>
mm == <<"m", "m">>
ss == <<"s", "s">>
dddd == <<"d", "d", "d", "d">>
ddd == <<"d", "d", "d">>

\* replacements: token and value, in the order of the object literal's keys.
Replacements(date) ==
  << <<YYYY, NumberToString(date.year)>>,
     <<YY, SliceLastTwo(NumberToString(date.year))>>,
     <<MMMM, monthNames[date.month]>>,
     <<MMM, monthNamesShort[date.month]>>,
     <<MM, PadStart(NumberToString(date.month))>>,
     <<DD, PadStart(NumberToString(date.day))>>,
     <<HH, PadStart(NumberToString(date.hours))>>,
     <<hh, PadStart(NumberToString(TwelveHour(date.hours)))>>,
     <<mm, PadStart(NumberToString(date.minutes))>>,
     <<ss, PadStart(NumberToString(date.seconds))>>,
     <<dddd, dayNames[GetDay(date) + 1]>>,
     <<ddd, dayNamesShort[GetDay(date) + 1]>>,
     <<<<"M">>, NumberToString(date.month)>>,
     <<<<"D">>, NumberToString(date.day)>>,
     <<<<"H">>, NumberToString(date.hours)>>,
     <<<<"h">>, NumberToString(TwelveHour(date.hours))>> >>

\* Object.keys(replacements).sort((a, b) => b.length - a.length): the sort
\* is stable, so tokens of one length keep the order of the keys.
SortedTokens(replacements) ==
  LET OfLength(n) == SelectSeq(replacements, LAMBDA r : Len(r[1]) = n)
  IN OfLength(4) \o OfLength(3) \o OfLength(2) \o OfLength(1)

RECURSIVE ReplaceToken(_, _, _)
\* result.replace(new RegExp(token, 'g'), value): every occurrence of the
\* token in the text, left to right, becomes the value.
ReplaceToken(text, token, value) ==
  IF text = <<>> THEN <<>>
  ELSE IF StartsWith(text, token)
  THEN value \o ReplaceToken(SubSeq(text, Len(token) + 1, Len(text)), token, value)
  ELSE <<Head(text)>> \o ReplaceToken(Tail(text), token, value)

RECURSIVE ReplaceTokens(_, _, _)
\* The for loop over sortedTokens from the k-th on: each replacement acts on
\* the result of the ones before it.
ReplaceTokens(text, sortedTokens, k) ==
  IF k > Len(sortedTokens) THEN text
  ELSE ReplaceTokens(ReplaceToken(text, sortedTokens[k][1], sortedTokens[k][2]),
                     sortedTokens, k + 1)

\* The characters /[<>:"/\\|?*]/ matches.
InvalidChars == {"<", ">", ":", "\"", "/", "\\", "|", "?", "*"}

\* replace(/^\.+/, '')
RECURSIVE RemoveLeadingDots(_)
RemoveLeadingDots(s) ==
  IF s # <<>> /\ Head(s) = "." THEN RemoveLeadingDots(Tail(s)) ELSE s

RECURSIVE RemoveTrailingDots(_)
RemoveTrailingDots(s) ==
  IF s # <<>> /\ s[Len(s)] = "." THEN RemoveTrailingDots(SubSeq(s, 1, Len(s) - 1))
  ELSE s

\* Variant: a name without an extension is given '.md' as well.
EnsureExtensionAlways(s) ==
  IF s # <<>> /\ s[Len(s)] = "." THEN RemoveTrailingDots(s) \o <<".", "m", "d">>
  ELSE IF \E k \in 1..(Len(s) - 1) : s[k] = "." THEN s
  ELSE s \o <<".", "m", "d">>

\* replace(/\.+$/, '.md')
EnsureExtension(s) ==
  IF s # <<>> /\ s[Len(s)] = "." THEN RemoveTrailingDots(s) \o <<".", "m", "d">>
  ELSE s

\* DateUtils.sanitizeFilename
SanitizeFilename(filename) ==
  Trim(EnsureExtension(RemoveLeadingDots(CollapseWhitespace(
    [k \in 1..Len(filename) |->
       IF filename[k] \in InvalidChars THEN "-" ELSE filename[k]]))))

\* DateUtils.generateFilename, on the characters of the template.
GenerateFilenameText(date, template) ==
  SanitizeFilename(ReplaceTokens(template, SortedTokens(Replacements(date)), 1))

\* ------------------------------------------------------ response envelope
NoChoicesError == [text |-> "No response generated", tokens |-> {}]
EmptyResponseError == [text |-> "Received empty response from AI service", tokens |-> {}]

Thrown(error) == [ok |-> FALSE, error |-> error, value |-> <<>>]
Returned(value) == [ok |-> TRUE, error |-> NoError, value |-> value]

\* Variant: only the empty string is refused.
ValidateResponseUntrimmed(text) ==
  IF text = <<>> THEN Thrown(EmptyResponseError) ELSE Returned(Trim(text))

\* validateResponse: throws on an empty or whitespace-only string, returns
\* the trimmed string otherwise.
ValidateResponse(text) ==
  IF text = <<>> \/ Len(Trim(text)) = 0 THEN Thrown(EmptyResponseError)
  ELSE Returned(Trim(text))

\* The generated texts a backend may put in its envelope.
GeneratedTexts == {<<>>, <<"\n", " ">>, <<"a">>, <<" ", "a", "\n">>}

\* A JSON body without a generated text (no choices, no candidates); also
\* what an invocation holds while it has received none.
NoBody == [generated |-> FALSE, text |-> <<>>]

\* A 2xx response's JSON body: with or without a generated text.
Bodies == {NoBody} \cup {[generated |-> TRUE, text |-> t] : t \in GeneratedTexts}

\* processContent after makeHttpRequest: the envelope checks, then
\* validateResponse.
ReadBody(body) ==
  IF ~body.generated THEN Thrown(NoChoicesError)
  ELSE IF body.text = <<>> THEN Thrown(EnvelopeError)
  ELSE ValidateResponse(body.text)

\* processContent from the response's JSON on: the envelope checks,
\* validateResponse, then parseSentimentFromResponse on the validated text;
\* what it returns, or the error it throws.
ProcessContent(body) ==
  LET read == ReadBody(body) IN
  IF read.ok THEN Returned(ParseSentimentFromResponse(read.value)) ELSE read

\* --------------------------------------------------------------- results
ErrorEntry(what, file, detail) == [what |-> what, file |-> file, detail |-> detail]

NoResult == [success |-> FALSE, processed |-> 0, errors |-> <<>>, duration |-> "none"]

\* The guard's early return of processNotes / processLatestNote.
BusyResult ==
  [success |-> FALSE, processed |-> 0,
   errors |-> <<ErrorEntry("Processing already in progress", 0, "")>>,
   duration |-> "zero"]

\* processNotes: unprocessedNotes.length === 0.
NothingToProcessResult ==
  [success |-> TRUE, processed |-> 0, errors |-> <<>>, duration |-> "measured"]

\* Variant: a completed loop always reports success.
CompletionResultAlwaysOk(p, e) ==
  [success |-> TRUE, processed |-> p, errors |-> e, duration |-> "measured"]

\* processNotes: the result built after the for-loop.
CompletionResult(p, e) ==
  [success |-> (Len(e) = 0), processed |-> p, errors |-> e, duration |-> "measured"]

\* processNotes: the outer catch.
CycleFailureResult(p, e, detail) ==
  [success |-> FALSE, processed |-> p,
   errors |-> <<ErrorEntry("Processing cycle failed", 0, detail)>> \o e,
   duration |-> "measured"]

\* processNotes: the per-note catch's error string.
PerNoteError(file, detail) == ErrorEntry("Failed to process", file, detail)

\* processLatestNote's return values.
LatestNoneResult ==
  [success |-> TRUE, processed |-> 0,
   errors |-> <<ErrorEntry("No recent daily note found", 0, "")>>,
   duration |-> "measured"]

LatestNoContentResult ==
  [success |-> FALSE, processed |-> 0,
   errors |-> <<ErrorEntry("No processable content found in the note", 0, "")>>,
   duration |-> "measured"]

LatestSuccessResult ==
  [success |-> TRUE, processed |-> 1, errors |-> <<>>, duration |-> "measured"]

LatestFailureResult(detail) ==
  [success |-> FALSE, processed |-> 0,
   errors |-> <<ErrorEntry("Latest note processing failed", 0, detail)>>,
   duration |-> "measured"]

\* A direct call of a service's processContent / of makeHttpRequest.
DirectResult(ok, detail) ==
  [success |-> ok, processed |-> 0,
   errors |-> IF ok THEN <<>> ELSE <<ErrorEntry("thrown", 0, detail)>>,
   duration |-> "none"]

\* ----------------------------------------------------------------- dates
\* A Date is a calendar day and a time of day (hours). Days are numbered;
\* the source notes of the default vault are dated on days 1..MaxNotes, all
\* of them before today.
Today == MaxNotes + 1

DayValues == 1..(Today + 1)

HourValues == {0, 15}

\* new Date(): the current instant, some time into today.
Now == [day |-> Today, hour |-> 12]

DateFormats == {"YYYY-MM-DD", "YYYY-MM-DD HH"}

FileNameFormats == {"Journal-YYYY-MM-DD.md", "Journal-YYYY-MM-DD-HH.md"}

\* The format has an hour-of-day token.
HasHourToken(format) == format \in {"YYYY-MM-DD HH", "Journal-YYYY-MM-DD-HH.md"}

\* date.setHours(0, 0, 0, 0)
SetHoursZero(date) == [date EXCEPT !.hour = 0]

\* `a < b` on Dates.
Before(a, b) == a.day < b.day \/ (a.day = b.day /\ a.hour < b.hour)

\* Variant: the dates are compared without truncation to midnight.
IsBeforeTodayUntruncated(date) == Before(date, Now)

\* isBeforeToday: both dates truncated to local midnight, then compared.
IsBeforeToday(date) == Before(SetHoursZero(date), SetHoursZero(Now))

\* A file name in which moment finds no date is written with day 0.
NoDateName == [day |-> 0, hour |-> 0]

\* parseDateFromFilename returned null.
NullDate == [day |-> 0, hour |-> 0]

\* parseDateFromFilename: moment(name, format) reads the fields the format
\* names; a field the format does not name is left at its zero; null when
\* the parsed date is not valid.
ParseDateFromFilename(filename, format) ==
  IF filename.day = 0 THEN NullDate
  ELSE [day |-> filename.day,
        hour |-> IF HasHourToken(format) THEN filename.hour ELSE 0]

\* formatDate(date, 'YYYY-MM-DD'): the calendar day, as a string.
FormatDate(date) == <<"day", date.day>>

\* createJournalEntry: the date string split at '-' and handed to
\* new Date(year, month - 1, day), which is local midnight of that day.
LocalDate(dateString) == [day |-> dateString[2], hour |-> 0]

\* generateFilename: every token of the template replaced by the date's field.
GenerateFilename(date, format) ==
  IF HasHourToken(format) THEN <<"Journal", date.day, date.hour>>
  ELSE <<"Journal", date.day>>

\* The rendered paths a document can be at.
PathValues ==
  {GenerateFilename([day |-> d, hour |-> h], f) :
     d \in DayValues, h \in HourValues, f \in FileNameFormats}

\* ------------------------------------------------------------------ scan
\* parseDailyNote: the DailyNote the scan materialises for a source file.
ParseDailyNote(n, date) ==
  [file |-> n, date |-> FormatDate(date), entries |-> noteEntries[n]]

\* Variant: the existence check always answers no.
JournalEntryExistsNever(date) == FALSE

\* journalEntryExists: a document exists at the path rendered from the date.
JournalEntryExists(date) ==
  GenerateFilename(date, journalFileNameFormat) \in journals

\* createJournalEntry: the path the note's document is written to.
JournalPath(note) == GenerateFilename(LocalDate(note.date), journalFileNameFormat)

\* The source folder's files, in enumeration order.
FilesInFolder == [i \in 1..MaxNotes |-> i]

\* The Date the scan parses from a source file's name.
DateOf(n) == ParseDateFromFilename(fileName[n], dateFormat)

\* parseDailyNote throws for the file: FileUtils.readFile rejects.
ReadThrows(n) == n \in unreadable

\* Variant: a file whose reading throws ends the loop over the files.
EligibleUntilThrow(n) ==
  /\ DateOf(n) # NullDate
  /\ IsBeforeToday(DateOf(n))
  /\ ~JournalEntryExists(DateOf(n))
  /\ \A m \in 1..n : ~ReadThrows(m)
  /\ ParseDailyNote(n, DateOf(n)).entries # 0

\* The scan's per-file filter: a date in the name, before today, no document
\* at the rendered path, a read that does not throw (the loop's catch skips
\* the file), at least one log entry.
Eligible(n) ==
  /\ DateOf(n) # NullDate
  /\ IsBeforeToday(DateOf(n))
  /\ ~JournalEntryExists(DateOf(n))
  /\ ~ReadThrows(n)
  /\ ParseDailyNote(n, DateOf(n)).entries # 0

\* findUnprocessedDailyNotes: the files that pass the filter, in enumeration
\* order.
FindUnprocessedDailyNotes ==
  LET kept == SelectSeq(FilesInFolder, Eligible)
  IN [i \in 1..Len(kept) |-> ParseDailyNote(kept[i], DateOf(kept[i]))]

\* In place of the DailyNote: parseDailyNote threw, outside the loop's catch.
ReadError == [file |-> 0, date |-> <<"day", 0>>, entries |-> 0]

\* findMostRecentDailyNote: the first file with the latest date before
\* today, or null (<<>>) when there is none, its document exists or it has
\* no entries.
FindMostRecentDailyNote ==
  LET IsPast(n) == DateOf(n) # NullDate /\ IsBeforeToday(DateOf(n))
      past == SelectSeq(FilesInFolder, IsPast)
  IN IF Len(past) = 0 THEN <<>>
     ELSE LET i == CHOOSE k \in 1..Len(past) :
                     /\ \A j \in 1..Len(past) : ~Before(DateOf(past[k]), DateOf(past[j]))
                     /\ \A j \in 1..(k - 1) : Before(DateOf(past[j]), DateOf(past[k]))
              latest == past[i]
          IN IF JournalEntryExists(DateOf(latest)) THEN <<>>
             ELSE IF ReadThrows(latest) THEN <<ReadError>>
             ELSE IF ParseDailyNote(latest, DateOf(latest)).entries = 0 THEN <<>>
             ELSE <<ParseDailyNote(latest, DateOf(latest))>>

\* prepareContentForAI: the joined entries; "" when there are none.
PrepareContentForAI(note) == IF note.entries = 0 THEN "" ELSE "entries"

RECURSIVE NextWithContent(_, _)
\* The for-loop's `continue` on notes without content: first index >= i whose
\* note has content, or Len + 1.
NextWithContent(list, i) ==
  IF i > Len(list) THEN i
  ELSE IF PrepareContentForAI(list[i]) = "" THEN NextWithContent(list, i + 1)
  ELSE i

\* ------------------------------------------------------------- scheduler
\* A returned promise's continuation is a microtask: the caller consumes the
\* result before any timer, command or network event is handled.
NoPendingReturn == \A c \in Calls : pc[c] # "returned"

\* A new invocation takes the first free slot.
FirstFree(c) == pc[c] = "idle" /\ \A d \in Calls : d < c => pc[d] # "idle"

\* Variant: the guard is never taken.
AlreadyProcessingNever == FALSE

\* `if (this.isProcessing)` at the head of both entry points.
AlreadyProcessing == isProcessing

Return(c, res) ==
  /\ pc' = [pc EXCEPT ![c] = "returned"]
  /\ result' = [result EXCEPT ![c] = res]

\* Variant: the guard sits inside the try, so the finally clears the flag.
RejectThroughFinally(c) ==
  /\ Return(c, BusyResult)
  /\ isProcessing' = FALSE
  /\ UNCHANGED <<lastProcessed, journals, notes, idx, processedCount, errors,
                 attempted, req>>

\* The guard's branch: return the busy result; nothing else is touched.
Reject(c) ==
  /\ Return(c, BusyResult)
  /\ UNCHANGED <<isProcessing, lastProcessed, journals, notes, idx, processedCount,
                 errors, attempted, req>>

\* Variant: the flag is not raised on entry.
EnterWithoutFlag(c) ==
  /\ pc' = [pc EXCEPT ![c] = "scan"]
  /\ notes' = [notes EXCEPT ![c] = <<>>]
  /\ idx' = [idx EXCEPT ![c] = 0]
  /\ processedCount' = [processedCount EXCEPT ![c] = 0]
  /\ errors' = [errors EXCEPT ![c] = <<>>]
  /\ attempted' = [attempted EXCEPT ![c] = <<>>]
  /\ req' = [req EXCEPT ![c] = IdleReq]
  /\ UNCHANGED <<isProcessing, lastProcessed, journals, result>>

\* Past the guard: isProcessing = true, locals initialised, await the scan.
Enter(c) ==
  /\ isProcessing' = TRUE
  /\ pc' = [pc EXCEPT ![c] = "scan"]
  /\ notes' = [notes EXCEPT ![c] = <<>>]
  /\ idx' = [idx EXCEPT ![c] = 0]
  /\ processedCount' = [processedCount EXCEPT ![c] = 0]
  /\ errors' = [errors EXCEPT ![c] = <<>>]
  /\ attempted' = [attempted EXCEPT ![c] = <<>>]
  /\ req' = [req EXCEPT ![c] = IdleReq]
  /\ UNCHANGED <<lastProcessed, journals, result>>

\* processNotes(), up to its first await.
ProcessNotesCall(c) ==
  /\ NoPendingReturn
  /\ FirstFree(c)
  /\ kind' = [kind EXCEPT ![c] = "notes"]
  /\ IF AlreadyProcessing THEN Reject(c) ELSE Enter(c)
  /\ UNCHANGED <<fileVars, tabVars, textVars, response, aiProvider, noteEntries>>

\* processNotes() called with the timers left as they are: by a manual
\* command, or by a timer whose state is not followed.
ProcessNotes(c) == ProcessNotesCall(c) /\ UNCHANGED timerVars

\* processLatestNote(), up to its first await.
ProcessLatestNote(c) ==
  /\ NoPendingReturn
  /\ FirstFree(c)
  /\ kind' = [kind EXCEPT ![c] = "latest"]
  /\ IF AlreadyProcessing THEN Reject(c) ELSE Enter(c)
  /\ UNCHANGED <<settingsVars, textVars, response, aiProvider, noteEntries>>

\* The `finally` of both entry points together with the return.
ReturnFinally(c, res) ==
  /\ isProcessing' = FALSE
  /\ Return(c, res)

\* The for-loop, resumed at index i with the given counters: skip notes
\* without content, then either issue the next note's request (processContent
\* -> makeHttpRequest -> fetch) or leave the loop and return.
ContinueLoop(c, list, i, p, e) ==
  LET j == NextWithContent(list, i) IN
  /\ idx' = [idx EXCEPT ![c] = j]
  /\ processedCount' = [processedCount EXCEPT ![c] = p]
  /\ errors' = [errors EXCEPT ![c] = e]
  /\ IF j > Len(list)
     THEN /\ lastProcessed' = TRUE
          /\ ReturnFinally(c, CompletionResult(p, e))
          /\ req' = [req EXCEPT ![c] = IdleReq]
          /\ UNCHANGED attempted
     ELSE /\ pc' = [pc EXCEPT ![c] = "http"]
          /\ req' = [req EXCEPT ![c] =
                       NewReq(DefaultRetries, GenerationTimeout(aiProvider))]
          /\ attempted' = [attempted EXCEPT ![c] = Append(attempted[c], list[j].file)]
          /\ UNCHANGED <<isProcessing, lastProcessed, result>>

\* The note the invocation is working on.
CurrentNote(c) == notes[c][idx[c]]

\* Variant: a failing note ends the loop (the catch is outside the for).
NoteFailsAborts(c, detail, q) ==
  IF kind[c] = "notes"
  THEN ContinueLoop(c, notes[c], Len(notes[c]) + 1, processedCount[c],
                    Append(errors[c], PerNoteError(notes[c][idx[c]].file, detail)))
  ELSE /\ req' = [req EXCEPT ![c] = q]
       /\ IF kind[c] = "latest"
          THEN ReturnFinally(c, LatestFailureResult(detail))
          ELSE Return(c, DirectResult(FALSE, detail)) /\ UNCHANGED isProcessing
       /\ UNCHANGED <<lastProcessed, idx, processedCount, errors, attempted>>

\* The current note failed with the given message: the per-note catch of
\* processNotes records it and goes on; processLatestNote's catch returns; a
\* direct processContent call rethrows to its caller.
NoteFails(c, detail, q) ==
  IF kind[c] = "notes"
  THEN ContinueLoop(c, notes[c], idx[c] + 1, processedCount[c],
                    Append(errors[c], PerNoteError(CurrentNote(c).file, detail)))
  ELSE /\ req' = [req EXCEPT ![c] = q]
       /\ IF kind[c] = "latest"
          THEN ReturnFinally(c, LatestFailureResult(detail))
          ELSE Return(c, DirectResult(FALSE, detail)) /\ UNCHANGED isProcessing
       /\ UNCHANGED <<lastProcessed, idx, processedCount, errors, attempted>>

\* Entry points called directly (a service's processContent, makeHttpRequest
\* itself) rather than through the Scheduler.
DirectKinds == {"http", "process"}

\* The log of failed attempts and sleeps is an observer's record: it is kept
\* for direct calls and left empty for the Scheduler's requests.
Logged(c, q) ==
  IF kind[c] \in DirectKinds THEN q
  ELSE [q EXCEPT !.firstFail = "", !.lastFail = "", !.waits = <<>>]

\* makeHttpRequest moved to state q: if it returned or threw, its caller
\* resumes in the same synchronous segment.
RequestStep(c, r) ==
  LET q == Logged(c, r) IN
  IF q.phase = "resolved"
  THEN /\ req' = [req EXCEPT ![c] = q]
       /\ IF kind[c] = "http"
          THEN Return(c, DirectResult(TRUE, ""))
          ELSE pc' = [pc EXCEPT ![c] = "body"] /\ UNCHANGED result
       /\ UNCHANGED <<isProcessing, lastProcessed, idx, processedCount, errors, attempted>>
  ELSE IF q.phase = "rejected"
  THEN IF kind[c] = "http"
       THEN /\ req' = [req EXCEPT ![c] = q]
            /\ Return(c, DirectResult(FALSE, q.thrown.text))
            /\ UNCHANGED <<isProcessing, lastProcessed, idx, processedCount, errors,
                           attempted>>
       ELSE NoteFails(c, HandleApiError(q.thrown), q)
  ELSE /\ req' = [req EXCEPT ![c] = q]
       /\ UNCHANGED <<isProcessing, lastProcessed, pc, idx, processedCount, errors,
                      attempted, result>>

\* await findUnprocessedDailyNotes() resolved; then createService and the
\* first iteration(s) of the loop up to the first await.
ScanDone(c) ==
  /\ NoPendingReturn
  /\ pc[c] = "scan" /\ kind[c] = "notes"
  /\ LET list == FindUnprocessedDailyNotes IN
     /\ notes' = [notes EXCEPT ![c] = list]
     /\ IF Len(list) = 0
        THEN /\ ReturnFinally(c, NothingToProcessResult)
             /\ UNCHANGED <<lastProcessed, idx, processedCount, errors, attempted, req>>
        ELSE IF aiProvider \notin Providers
        THEN /\ ReturnFinally(c, CycleFailureResult(processedCount[c], errors[c],
                                                    "Unsupported AI provider"))
             /\ UNCHANGED <<lastProcessed, idx, processedCount, errors, attempted, req>>
        ELSE ContinueLoop(c, list, 1, 0, <<>>)
  /\ UNCHANGED <<settingsVars, textVars, response, aiProvider, noteEntries, journals, kind>>

\* await findUnprocessedDailyNotes() rejected (the folder enumeration failed).
ScanThrows(c) ==
  /\ NoPendingReturn
  /\ pc[c] = "scan" /\ kind[c] = "notes"
  /\ ReturnFinally(c, CycleFailureResult(processedCount[c], errors[c],
                                         "Failed to scan daily notes"))
  /\ UNCHANGED <<settingsVars, textVars, response, aiProvider, noteEntries, journals,
                 kind, lastProcessed, notes, idx,
                 processedCount, errors, attempted, req>>

\* await findMostRecentDailyNote() resolved.
LatestScanDone(c) ==
  /\ NoPendingReturn
  /\ pc[c] = "scan" /\ kind[c] = "latest"
  /\ LET found == FindMostRecentDailyNote IN
     /\ notes' = [notes EXCEPT ![c] = IF found = <<ReadError>> THEN <<>> ELSE found]
     /\ IF found = <<ReadError>>
        THEN /\ ReturnFinally(c, LatestFailureResult("Failed to find recent daily note"))
             /\ UNCHANGED <<idx, attempted, req>>
        ELSE IF Len(found) = 0
        THEN /\ ReturnFinally(c, LatestNoneResult)
             /\ UNCHANGED <<idx, attempted, req>>
        ELSE IF aiProvider \notin Providers
        THEN /\ ReturnFinally(c, LatestFailureResult("Unsupported AI provider"))
             /\ UNCHANGED <<idx, attempted, req>>
        ELSE IF PrepareContentForAI(found[1]) = ""
        THEN /\ ReturnFinally(c, LatestNoContentResult)
             /\ UNCHANGED <<idx, attempted, req>>
        ELSE /\ pc' = [pc EXCEPT ![c] = "http"]
             /\ idx' = [idx EXCEPT ![c] = 1]
             /\ req' = [req EXCEPT ![c] =
                          NewReq(DefaultRetries, GenerationTimeout(aiProvider))]
             /\ attempted' = [attempted EXCEPT ![c] = <<found[1].file>>]
             /\ UNCHANGED <<isProcessing, result>>
  /\ UNCHANGED <<settingsVars, textVars, response, aiProvider, noteEntries, journals,
                 kind, lastProcessed, processedCount,
                 errors>>

\* await findMostRecentDailyNote() rejected.
LatestScanThrows(c) ==
  /\ NoPendingReturn
  /\ pc[c] = "scan" /\ kind[c] = "latest"
  /\ ReturnFinally(c, LatestFailureResult("Failed to find recent daily note"))
  /\ UNCHANGED <<settingsVars, textVars, response, aiProvider, noteEntries, journals,
                 kind, lastProcessed, notes, idx,
                 processedCount, errors, attempted, req>>

\* ------------------------------------------------- the backend's answers
InFlight(c) == NoPendingReturn /\ pc[c] = "http" /\ req[c].phase = "fetching"

\* fetch() resolves with a success status and the given JSON body (which a
\* direct makeHttpRequest call hands to its caller unread).
FetchOk(c, body) ==
  /\ InFlight(c) /\ ~req[c].aborted
  /\ RequestStep(c, OnResponseOk(req[c]))
  /\ response' = [response EXCEPT ![c] = IF kind[c] = "http" THEN NoBody ELSE body]
  /\ UNCHANGED <<settingsVars, textVars, aiProvider, noteEntries, journals, kind, notes>>

\* fetch() resolves with a non-success status.
FetchStatus(c, status) ==
  /\ InFlight(c) /\ ~req[c].aborted
  /\ RequestStep(c, OnResponseStatus(req[c], status))
  /\ UNCHANGED <<settingsVars, textVars, response, aiProvider, noteEntries, journals, kind, notes>>

\* fetch() rejects with a network failure.
FetchFails(c) ==
  /\ InFlight(c) /\ ~req[c].aborted
  /\ RequestStep(c, OnReject(req[c], "network"))
  /\ UNCHANGED <<settingsVars, textVars, response, aiProvider, noteEntries, journals, kind, notes>>

\* fetch() rejects with AbortError because the signal is aborted.
FetchAborted(c) ==
  /\ InFlight(c) /\ req[c].aborted
  /\ RequestStep(c, OnReject(req[c], "abort"))
  /\ UNCHANGED <<settingsVars, textVars, response, aiProvider, noteEntries, journals, kind, notes>>

\* The backoff sleep is over.
Wake(c) ==
  /\ NoPendingReturn
  /\ pc[c] = "http" /\ req[c].phase = "sleeping"
  /\ RequestStep(c, OnWake(req[c]))
  /\ UNCHANGED <<settingsVars, textVars, response, aiProvider, noteEntries, journals, kind, notes>>

\* Wall-clock time reaches the call's timeout.
TimeoutElapses(c) ==
  /\ NoPendingReturn
  /\ pc[c] = "http" /\ req[c].phase \in {"fetching", "sleeping"}
  /\ ~req[c].deadlinePassed
  /\ RequestStep(c, OnDeadline(req[c]))
  /\ UNCHANGED <<settingsVars, textVars, response, aiProvider, noteEntries, journals, kind, notes>>

\* Variant: the text goes on to the document without the checks.
BodyReadUnchecked(c, body) ==
  /\ NoPendingReturn
  /\ pc[c] = "body" /\ body = response[c]
  /\ response' = [response EXCEPT ![c] = [generated |-> TRUE, text |-> Trim(body.text)]]
  /\ IF kind[c] = "process"
     THEN Return(c, DirectResult(TRUE, ""))
     ELSE pc' = [pc EXCEPT ![c] = "write"] /\ UNCHANGED result
  /\ UNCHANGED <<isProcessing, lastProcessed, idx, processedCount, errors, attempted, req>>
  /\ UNCHANGED <<settingsVars, textVars, aiProvider, noteEntries, journals, kind, notes>>

\* await response.json(), the envelope checks, validateResponse and
\* parseSentimentFromResponse: either a result, or an error that goes
\* through handleApiError.
BodyRead(c, body) ==
  /\ NoPendingReturn
  /\ pc[c] = "body" /\ body = response[c]
  /\ LET read == ReadBody(body) IN
     IF read.ok
     THEN /\ response' = [response EXCEPT ![c] = [generated |-> TRUE, text |-> read.value]]
          /\ IF kind[c] = "process"
             THEN Return(c, DirectResult(TRUE, ""))
             ELSE pc' = [pc EXCEPT ![c] = "write"] /\ UNCHANGED result
          /\ UNCHANGED <<isProcessing, lastProcessed, idx, processedCount, errors,
                         attempted, req>>
     ELSE /\ response' = [response EXCEPT ![c] = NoBody]
          /\ NoteFails(c, HandleApiError(read.error), req[c])
  /\ UNCHANGED <<settingsVars, textVars, aiProvider, noteEntries, journals, kind, notes>>

\* await createJournalEntry(): the document is written, or the write throws.
WriteDone(c, ok) ==
  /\ NoPendingReturn
  /\ pc[c] = "write"
  /\ response' = [response EXCEPT ![c] = NoBody]
  /\ IF ok
     THEN /\ journals' = journals \cup {JournalPath(CurrentNote(c))}
          /\ IF kind[c] = "notes"
             THEN ContinueLoop(c, notes[c], idx[c] + 1, processedCount[c] + 1, errors[c])
             ELSE /\ lastProcessed' = TRUE
                  /\ ReturnFinally(c, LatestSuccessResult)
                  /\ UNCHANGED <<idx, processedCount, errors, attempted, req>>
     ELSE /\ UNCHANGED journals
          /\ NoteFails(c, "Failed to create journal entry", req[c])
  /\ UNCHANGED <<settingsVars, textVars, aiProvider, noteEntries, kind, notes>>

\* The caller has consumed the returned promise; the slot is free again.
Collect(c) ==
  /\ pc[c] = "returned"
  /\ pc' = [pc EXCEPT ![c] = "idle"]
  /\ result' = [result EXCEPT ![c] = NoResult]
  /\ notes' = [notes EXCEPT ![c] = <<>>]
  /\ idx' = [idx EXCEPT ![c] = 0]
  /\ processedCount' = [processedCount EXCEPT ![c] = 0]
  /\ errors' = [errors EXCEPT ![c] = <<>>]
  /\ attempted' = [attempted EXCEPT ![c] = <<>>]
  /\ req' = [req EXCEPT ![c] = IdleReq]
  /\ kind' = [kind EXCEPT ![c] = "none"]
  /\ response' = [response EXCEPT ![c] = NoBody]
  /\ UNCHANGED <<settingsVars, textVars, aiProvider, noteEntries, journals,
                 isProcessing, lastProcessed>>

\* The user deletes a journal document (the way to have a note reprocessed).
DeleteJournal(path) ==
  /\ NoPendingReturn
  /\ path \in journals
  /\ journals' = journals \ {path}
  /\ UNCHANGED <<settingsVars, textVars, response, aiProvider, noteEntries,
                 isProcessing, lastProcessed, pc, kind, notes,
                 idx, processedCount, errors, attempted, result, req>>

\* ----------------------------------------------- plugin, timers, settings
\* There is one settings object: loadSettings creates it, initializeServices
\* hands the same reference to NoteProcessor, JournalManager and Scheduler,
\* and the settings tab assigns to its fields. The variables checkFrequency,
\* journalFileNameFormat, aiProvider, model, apiKey and endpoint are the
\* fields of that object, whoever reads them.

\* DEFAULT_SETTINGS.checkFrequency, in minutes.
DefaultCheckFrequency == 60

\* The minutes the slider and the text field are set to.
Frequencies == {30, DefaultCheckFrequency}

\* intervalId = null. A timer made by setInterval is named by the minutes
\* it was made with.
NullId == 0

\* Everything a run and the request layer hold.
runVars == <<noteEntries, journals, isProcessing, lastProcessed, pc, kind, notes,
             idx, processedCount, errors, attempted, result, req, response>>

\* A model name: the provider that offers it and its place in the catalogue.
ModelName(provider, k) == <<provider, k>>

\* aiConfig.model = ''.
NoModel == <<"", 0>>

\* AIServiceFactory.getFallbackModels: the provider's static list, empty for
\* an unknown provider.
FallbackModels(provider) ==
  IF provider \in Providers
  THEN <<ModelName(provider, 1), ModelName(provider, 2)>>
  ELSE <<>>

\* The lists a provider's endpoint may answer a model-list request with.
ModelLists(provider) ==
  {FallbackModels(provider), <<ModelName(provider, 2), ModelName(provider, 3)>>}

\* What fetchAvailableModels resolves to.
FetchResults(provider) ==
  {[success |-> TRUE, models |-> list] : list \in ModelLists(provider)}
    \cup {[success |-> FALSE, models |-> FallbackModels(provider)]}

\* getProviderRequirements.
RequiresApiKey(provider) == provider \in {"openai", "gemini"}
RequiresEndpoint(provider) == provider = "ollama"

\* fallbackModels[0] || ''
FirstOr(list, default) == IF list = <<>> THEN default ELSE list[1]

\* models.includes(name)
ModelsInclude(list, name) == \E k \in 1..Len(list) : list[k] = name

\* What runs after the await of saveSettings in the handler that called it.
NoContinuation == [after |-> "nothing", value |-> ""]
ProviderContinuation(value) == [after |-> "provider", value |-> value]
FetchContinuation(provider) == [after |-> "fetch", value |-> provider]

\* Scheduler.stop().
Stop == intervalId' = NullId /\ UNCHANGED initialRuns

\* Scheduler.start(): stop(), then setInterval and the 5 s setTimeout, whose
\* id is not kept.
Start ==
  IF checkFrequency <= 0 THEN Stop
  ELSE /\ intervalId' = checkFrequency
       /\ initialRuns' = initialRuns + 1

\* this.settings.checkFrequency !== newSettings.checkFrequency, where
\* this.settings and newSettings are the one settings object.
FrequencyChanged == checkFrequency # checkFrequency

\* Scheduler.updateSettings(this.settings).
UpdateSettings ==
  LET wasRunning == intervalId # NullId IN
  IF wasRunning /\ FrequencyChanged THEN Start
  ELSE UNCHANGED <<intervalId, initialRuns>>

\* saveSettings() up to its await of saveData.
SaveSettings(continuation) == saves' = Append(saves, continuation)

\* fetchAndUpdateModels up to its await: nothing without the key or the
\* endpoint the provider requires, otherwise the request is sent.
FetchModels(provider) ==
  IF \/ RequiresApiKey(provider) /\ ~apiKey
     \/ RequiresEndpoint(provider) /\ ~endpoint
     \/ provider \in fetches
  THEN UNCHANGED fetches
  ELSE fetches' = fetches \cup {provider}

\* The state onload leaves: settings loaded, services constructed on them,
\* the scheduler started, the tab's controls built from the settings.
PluginLoaded ==
  /\ lifecycle = "loaded"
  /\ checkFrequency = DefaultCheckFrequency
  /\ intervalId = DefaultCheckFrequency
  /\ initialRuns = 1
  /\ saves = <<>>
  /\ model = FirstOr(FallbackModels(aiProvider), NoModel)
  /\ apiKey = FALSE
  /\ endpoint = (aiProvider = "ollama")
  /\ shown = FallbackModels(aiProvider)
  /\ fetches = {}

\* onunload: scheduler.stop().
Onunload ==
  /\ NoPendingReturn
  /\ lifecycle = "loaded"
  /\ lifecycle' = "unloaded"
  /\ Stop
  /\ UNCHANGED <<checkFrequency, saves, fileVars, tabVars, textVars, aiProvider,
                 runVars>>

\* The interval timer fires: processNotes().
IntervalFires(c) ==
  /\ intervalId # NullId
  /\ ProcessNotesCall(c)
  /\ UNCHANGED timerVars

\* The 5 s timeout of a start() fires: processNotes().
InitialRunFires(c) ==
  /\ initialRuns > 0
  /\ initialRuns' = initialRuns - 1
  /\ ProcessNotesCall(c)
  /\ UNCHANGED <<lifecycle, checkFrequency, intervalId, saves>>

\* The check-frequency slider or text field changes: the handler up to its
\* await of saveSettings.
ChangeFrequency(value) ==
  /\ NoPendingReturn
  /\ lifecycle = "loaded" /\ Len(saves) < MaxSaves
  /\ value # checkFrequency
  /\ checkFrequency' = value
  /\ SaveSettings(NoContinuation)
  /\ UNCHANGED <<lifecycle, intervalId, initialRuns, fileVars, tabVars, textVars,
                 aiProvider, runVars>>

\* The filename-template field changes: the handler up to its await. (Not
\* followed while a write is awaited: createJournalEntry has rendered its
\* path before its first await.)
ChangeFileNameFormat(value) ==
  /\ NoPendingReturn
  /\ \A c \in Calls : pc[c] # "write"
  /\ lifecycle = "loaded" /\ Len(saves) < MaxSaves
  /\ value # journalFileNameFormat
  /\ journalFileNameFormat' = value
  /\ SaveSettings(NoContinuation)
  /\ UNCHANGED <<lifecycle, checkFrequency, intervalId, initialRuns, dateFormat,
                 fileName, unreadable, tabVars, textVars, aiProvider, runVars>>

\* The API-key field changes to a key: the handler up to its await.
ChangeApiKey ==
  /\ NoPendingReturn
  /\ lifecycle = "loaded" /\ Len(saves) < MaxSaves
  /\ RequiresApiKey(aiProvider) /\ ~apiKey
  /\ apiKey' = TRUE
  /\ SaveSettings(NoContinuation)
  /\ UNCHANGED <<lifecycle, checkFrequency, intervalId, initialRuns, fileVars,
                 model, endpoint, shown, fetches, textVars, aiProvider, runVars>>

\* The provider dropdown changes: the provider and the reset of the AI
\* configuration, up to the await of saveSettings.
ChangeProvider(value) ==
  /\ NoPendingReturn
  /\ lifecycle = "loaded" /\ Len(saves) < MaxSaves
  /\ value # aiProvider
  /\ aiProvider' = value
  /\ model' = FirstOr(FallbackModels(value), NoModel)
  /\ apiKey' = FALSE
  /\ endpoint' = (value = "ollama")
  /\ SaveSettings(ProviderContinuation(value))
  /\ UNCHANGED <<lifecycle, checkFrequency, intervalId, initialRuns, fileVars,
                 shown, fetches, textVars, runVars>>

\* The refresh button: refreshModels -> fetchAndUpdateModels for the
\* provider selected now.
RefreshModels ==
  /\ NoPendingReturn
  /\ lifecycle = "loaded"
  /\ FetchModels(aiProvider)
  /\ fetches' # fetches
  /\ UNCHANGED <<timerVars, fileVars, model, apiKey, endpoint, shown, textVars,
                 aiProvider, runVars>>

\* The model dropdown changes to one of its options: the handler up to its
\* await.
ChangeModel(value) ==
  /\ NoPendingReturn
  /\ lifecycle = "loaded" /\ Len(saves) < MaxSaves
  /\ ModelsInclude(shown, value) /\ value # model
  /\ model' = value
  /\ SaveSettings(NoContinuation)
  /\ UNCHANGED <<lifecycle, checkFrequency, intervalId, initialRuns, fileVars,
                 apiKey, endpoint, shown, fetches, textVars, aiProvider, runVars>>

\* saveData resolves for the oldest pending saveSettings: the services'
\* updateSettings, then the rest of the handler that awaited it. After a
\* provider change that is the dropdown filled with the static list and the
\* fetch of the provider's models.
SaveDataDone ==
  /\ NoPendingReturn
  /\ saves # <<>>
  /\ saves' = Tail(saves)
  /\ UpdateSettings
  /\ IF Head(saves).after = "provider"
     THEN /\ shown' = FallbackModels(Head(saves).value)
          /\ FetchModels(Head(saves).value)
     ELSE UNCHANGED <<shown, fetches>>
  /\ UNCHANGED <<lifecycle, checkFrequency, fileVars, model, apiKey, endpoint,
                 textVars, aiProvider, runVars>>

\* fetchAvailableModels resolves for the provider the fetch was started
\* with: the rest of fetchAndUpdateModels, up to its await of saveSettings.
FetchModelsDone(provider, fetched) ==
  /\ NoPendingReturn
  /\ provider \in fetches
  /\ Len(saves) < MaxSaves
  /\ fetches' = fetches \ {provider}
  /\ IF fetched.success /\ Len(fetched.models) > 0
     THEN /\ shown' = fetched.models
          /\ IF ~ModelsInclude(fetched.models, model)
             THEN /\ model' = fetched.models[1]
                  /\ SaveSettings(FetchContinuation(provider))
             ELSE UNCHANGED <<model, saves>>
     ELSE UNCHANGED <<shown, model, saves>>
  /\ UNCHANGED <<lifecycle, checkFrequency, intervalId, initialRuns, fileVars,
                 apiKey, endpoint, textVars, aiProvider, runVars>>

\* ---------------------------------------------------------- direct calls
TimeoutValues == {DefaultTimeoutMs, OllamaTimeoutMs, OllamaTestTimeoutMs}

NoCallActive == \A d \in Calls : pc[d] = "idle"

\* A direct call makeHttpRequest(url, options, retries, timeoutMs).
CallHttp(c, retries, timeoutMs) ==
  /\ NoCallActive /\ FirstFree(c)
  /\ kind' = [kind EXCEPT ![c] = "http"]
  /\ pc' = [pc EXCEPT ![c] = "http"]
  /\ req' = [req EXCEPT ![c] = NewReq(retries, timeoutMs)]
  /\ UNCHANGED <<settingsVars, textVars, response, aiProvider, noteEntries, journals,
                 isProcessing, lastProcessed, notes,
                 idx, processedCount, errors, attempted, result>>

\* A direct call service.processContent(content, prompt, language) on the
\* configured backend's service.
CallProcess(c) ==
  /\ NoCallActive /\ FirstFree(c)
  /\ aiProvider \in Providers
  /\ kind' = [kind EXCEPT ![c] = "process"]
  /\ pc' = [pc EXCEPT ![c] = "http"]
  /\ req' = [req EXCEPT ![c] = NewReq(DefaultRetries, GenerationTimeout(aiProvider))]
  /\ UNCHANGED <<settingsVars, textVars, response, aiProvider, noteEntries, journals,
                 isProcessing, lastProcessed, notes,
                 idx, processedCount, errors, attempted, result>>

\* ------------------------------------------------------- specifications
Init ==
  /\ aiProvider \in ProviderValues
  /\ noteEntries \in [Notes -> 0..1]
  /\ journals = {}
  /\ isProcessing = FALSE
  /\ lastProcessed = FALSE
  /\ pc = [c \in Calls |-> "idle"]
  /\ kind = [c \in Calls |-> "none"]
  /\ notes = [c \in Calls |-> <<>>]
  /\ idx = [c \in Calls |-> 0]
  /\ processedCount = [c \in Calls |-> 0]
  /\ errors = [c \in Calls |-> <<>>]
  /\ attempted = [c \in Calls |-> <<>>]
  /\ result = [c \in Calls |-> NoResult]
  /\ req = [c \in Calls |-> IdleReq]
  /\ response = [c \in Calls |-> NoBody]
  /\ dateFormat = "YYYY-MM-DD"
  /\ journalFileNameFormat = "Journal-YYYY-MM-DD.md"
  /\ fileName = [n \in Notes |-> [day |-> n, hour |-> 0]]
  /\ unreadable = {}
  /\ input = NotApplied
  /\ output = NotApplied
  /\ PluginLoaded

Next ==
  \/ \E c \in Calls : ProcessNotes(c)
  \/ \E c \in Calls : ProcessLatestNote(c)
  \/ \E c \in Calls : ScanDone(c)
  \/ \E c \in Calls : ScanThrows(c)
  \/ \E c \in Calls : LatestScanDone(c)
  \/ \E c \in Calls : LatestScanThrows(c)
  \/ \E c \in Calls, body \in Bodies : FetchOk(c, body)
  \/ \E c \in Calls, s \in Statuses : FetchStatus(c, s)
  \/ \E c \in Calls : FetchFails(c)
  \/ \E c \in Calls : FetchAborted(c)
  \/ \E c \in Calls : Wake(c)
  \/ \E c \in Calls : TimeoutElapses(c)
  \/ \E c \in Calls, body \in Bodies : BodyRead(c, body)
  \/ \E c \in Calls, ok \in BOOLEAN : WriteDone(c, ok)
  \/ \E c \in Calls : Collect(c)
  \/ \E path \in PathValues : DeleteJournal(path)

Spec == Init /\ [][Next]_vars

\* The request layer on its own: direct calls with every retry budget up to
\* MaxRetries and every timeout value the code uses.
NextHttp ==
  \/ \E c \in Calls, r \in 1..MaxRetries, t \in TimeoutValues : CallHttp(c, r, t)
  \/ \E c \in Calls : CallProcess(c)
  \/ \E c \in Calls, body \in Bodies : FetchOk(c, body)
  \/ \E c \in Calls, s \in Statuses : FetchStatus(c, s)
  \/ \E c \in Calls : FetchFails(c)
  \/ \E c \in Calls : FetchAborted(c)
  \/ \E c \in Calls : Wake(c)
  \/ \E c \in Calls : TimeoutElapses(c)
  \/ \E c \in Calls, body \in Bodies : BodyRead(c, body)
  \/ \E c \in Calls : Collect(c)

InitHttp == Init /\ noteEntries = [n \in Notes |-> 1]

SpecHttp == InitHttp /\ [][NextHttp]_vars

\* The scan under other vaults and settings: source notes with entries, dated
\* from two days ago to tomorrow (several notes may carry one date) under the
\* default formats, or dated yesterday under formats with or without an hour.
ScanDays == (Today - 2)..(Today + 1)

InitScan ==
  /\ aiProvider = "openai"
  /\ noteEntries = [n \in Notes |-> 1]
  /\ journals = {}
  /\ isProcessing = FALSE
  /\ lastProcessed = FALSE
  /\ pc = [c \in Calls |-> "idle"]
  /\ kind = [c \in Calls |-> "none"]
  /\ notes = [c \in Calls |-> <<>>]
  /\ idx = [c \in Calls |-> 0]
  /\ processedCount = [c \in Calls |-> 0]
  /\ errors = [c \in Calls |-> <<>>]
  /\ attempted = [c \in Calls |-> <<>>]
  /\ result = [c \in Calls |-> NoResult]
  /\ req = [c \in Calls |-> IdleReq]
  /\ response = [c \in Calls |-> NoBody]
  /\ dateFormat \in DateFormats
  /\ journalFileNameFormat \in FileNameFormats
  /\ fileName \in [Notes -> [day : ScanDays, hour : HourValues]]
  /\ \/ /\ dateFormat = "YYYY-MM-DD"
        /\ journalFileNameFormat = "Journal-YYYY-MM-DD.md"
        /\ \A n \in Notes : fileName[n].hour = 0
     \/ /\ \A n \in Notes : fileName[n].day = Today - 1
        /\ \A n \in Notes : HasHourToken(dateFormat) \/ fileName[n].hour = 0
  /\ unreadable = {}
  /\ input = NotApplied
  /\ output = NotApplied
  /\ PluginLoaded

SpecScan == InitScan /\ [][Next]_vars

\* The plugin with its timers and the settings that are edited while it
\* runs: the state onload leaves, one provider, every note with entries, a
\* backend that answers every request with a 2xx response.
InitPlugin == InitHttp /\ aiProvider = "openai"

NextPlugin ==
  \/ \E c \in Calls : IntervalFires(c)
  \/ \E c \in Calls : InitialRunFires(c)
  \/ \E value \in Frequencies : ChangeFrequency(value)
  \/ \E value \in FileNameFormats : ChangeFileNameFormat(value)
  \/ SaveDataDone
  \/ Onunload
  \/ \E c \in Calls : ScanDone(c)
  \/ \E c \in Calls, body \in Bodies : FetchOk(c, body)
  \/ \E c \in Calls, body \in Bodies : BodyRead(c, body)
  \/ \E c \in Calls, ok \in BOOLEAN : WriteDone(c, ok)
  \/ \E c \in Calls : Collect(c)

SpecPlugin == InitPlugin /\ [][NextPlugin]_vars

\* The settings tab's AI configuration on its own: any provider loaded, the
\* user's edits and the model-list fetches they start.
InitTab == InitHttp /\ aiProvider \in Providers

\* The model names that occur.
ModelNames == {ModelName(p, k) : p \in Providers, k \in 1..3}

NextTab ==
  \/ \E value \in Providers : ChangeProvider(value)
  \/ \E value \in ModelNames : ChangeModel(value)
  \/ ChangeApiKey
  \/ RefreshModels
  \/ SaveDataDone
  \/ \E p \in Providers : \E fetched \in FetchResults(p) : FetchModelsDone(p, fetched)

SpecTab == InitTab /\ [][NextTab]_vars

\* The scan over other source folders: files with or without a date in the
\* name, dated yesterday or today, some of them unreadable.
InitFiles ==
  /\ aiProvider = "openai"
  /\ noteEntries = [n \in Notes |-> 1]
  /\ journals = {}
  /\ isProcessing = FALSE
  /\ lastProcessed = FALSE
  /\ pc = [c \in Calls |-> "idle"]
  /\ kind = [c \in Calls |-> "none"]
  /\ notes = [c \in Calls |-> <<>>]
  /\ idx = [c \in Calls |-> 0]
  /\ processedCount = [c \in Calls |-> 0]
  /\ errors = [c \in Calls |-> <<>>]
  /\ attempted = [c \in Calls |-> <<>>]
  /\ result = [c \in Calls |-> NoResult]
  /\ req = [c \in Calls |-> IdleReq]
  /\ response = [c \in Calls |-> NoBody]
  /\ dateFormat = "YYYY-MM-DD"
  /\ journalFileNameFormat = "Journal-YYYY-MM-DD.md"
  /\ fileName \in [Notes -> {NoDateName} \cup [day : {Today - 1, Today}, hour : {0}]]
  /\ unreadable \in SUBSET Notes
  /\ input = NotApplied
  /\ output = NotApplied
  /\ PluginLoaded

SpecFiles == InitFiles /\ [][Next]_vars

\* ------------------------------------------------------ text functions
\* The text functions on their own: each is applied once to an argument
\* drawn from a bounded set of texts.
\* The lines a response is made of.
ResponseLines ==
  {<<"a">>, <<>>, <<" ">>,
   <<"SENTIMENT:", " ", "Happy">>,
   <<" ", "Sentiment:", " ", " ", "VERY SAD", " ">>,
   <<"SENTIMENT:", "Neutral">>,
   <<"SENTIMENT:", " ", "Glad">>,
   <<"a", " ", "SENTIMENT:", " ", "Sad">>,
   <<"SENTIMENT:", " ", "Very Happy", " ", "a">>}

\* The responses of up to MaxLines lines.
Responses ==
  UNION {{Join(ls) : ls \in [1..k -> ResponseLines]} : k \in 0..MaxLines}

\* A number as it is written: an optional minus sign and a number word.
Written(n) == IF n.sign = "-" THEN <<"-", n.word>> ELSE <<n.word>>

\* The latitudes and longitudes that are written, in and out of range.
Latitudes ==
  {[sign |-> "", word |-> "40.7128"], [sign |-> "-", word |-> "40.7128"],
   [sign |-> "", word |-> "90.5"]}

Longitudes == {[sign |-> "-", word |-> "74.0060"], [sign |-> "", word |-> "200"]}

\* The six shapes of the README's "Coordinate Formats", and the degree shape
\* once more with lower-case hemisphere letters.
Shapes == {"bracket", "parentheses", "bare", "degrees", "degrees lower case",
           "GPS", "Location"}

\* The pair (lat, lng) written in the given shape.
Shape(shape, lat, lng) ==
  LET pair == Written(lat) \o <<",", " ">> \o Written(lng)
      upper == <<lat.word, "°", IF lat.sign = "-" THEN "S" ELSE "N", ",", " ",
                 lng.word, "°", IF lng.sign = "-" THEN "W" ELSE "E">>
  IN CASE shape = "bracket" -> <<"[">> \o pair \o <<"]">>
       [] shape = "parentheses" -> <<"(">> \o pair \o <<")">>
       [] shape = "bare" -> pair
       [] shape = "degrees" -> upper
       [] shape = "degrees lower case" ->
            [k \in 1..Len(upper) |->
               CASE upper[k] = "N" -> "n" [] upper[k] = "S" -> "s"
                 [] upper[k] = "E" -> "e" [] upper[k] = "W" -> "w"
                 [] OTHER -> upper[k]]
       [] shape = "GPS" -> <<"GPS:", " ">> \o pair
       [] shape = "Location" -> <<"Location:", " ">> \o pair

Pieces == [shape : Shapes, lat : Latitudes, lng : Longitudes]

RECURSIVE TextOf(_)
\* The text in which the given pieces are written one after the other,
\* a space between them.
TextOf(pieces) ==
  IF pieces = <<>> THEN <<>>
  ELSE IF Len(pieces) = 1 THEN Shape(pieces[1].shape, pieces[1].lat, pieces[1].lng)
  ELSE Shape(pieces[1].shape, pieces[1].lat, pieces[1].lng) \o <<" ">>
         \o TextOf(Tail(pieces))

\* The texts of one to MaxPieces written coordinates.
PieceLists == UNION {[1..k -> Pieces] : k \in 1..MaxPieces}

\* A call extractCoordinates(text) on the text of input.pieces.
CallExtractCoordinates ==
  /\ input.fn = "extractCoordinates" /\ output = NotApplied
  /\ output' = [fn |-> input.fn, value |-> ExtractCoordinates(input.arg)]
  /\ UNCHANGED <<input, settingsVars, response, aiProvider, noteEntries, journals,
                 isProcessing, lastProcessed, pc, kind, notes, idx, processedCount,
                 errors, attempted, result, req>>

\* A call processContent whose request is answered with a 2xx response
\* carrying the generated text input.arg.
CallProcessContent ==
  /\ input.fn = "processContent" /\ output = NotApplied
  /\ output' = [fn |-> input.fn,
                value |-> ProcessContent([generated |-> TRUE, text |-> input.arg])]
  /\ UNCHANGED <<input, settingsVars, response, aiProvider, noteEntries, journals,
                 isProcessing, lastProcessed, pc, kind, notes, idx, processedCount,
                 errors, attempted, result, req>>

\* A call parseSentimentFromResponse(input).
CallParseSentiment ==
  /\ input.fn = "parseSentimentFromResponse" /\ output = NotApplied
  /\ output' = [fn |-> input.fn, value |-> ParseSentimentFromResponse(input.arg)]
  /\ UNCHANGED <<input, settingsVars, response, aiProvider, noteEntries, journals,
                 isProcessing, lastProcessed, pc, kind, notes, idx, processedCount,
                 errors, attempted, result, req>>

\* A note of two list lines: one tells of a visit and carries the written
\* pair, in the middle or at the end of the line; the other is a plain
\* bullet or numbered item; in either order.
NoteContents ==
  {[content |-> Join(IF first THEN <<visit, other>> ELSE <<other, visit>>),
    pieces |-> <<piece>>] :
     <<piece, visit, other, first>> \in
       UNION {{<<pc1, <<"-", " ", "Visited", " ">> \o TextOf(<<pc1>>) \o tl, ot, fs>> :
                 tl \in {<<>>, <<" ", "today">>},
                 ot \in {<<"-", " ", "Second", " ", "entry">>,
                         <<"1.", " ", "Second", " ", "entry">>},
                 fs \in BOOLEAN} : pc1 \in Pieces}}

\* parseDailyNote on the content of input, and the document made of it.
CallParseDailyNote ==
  /\ input.fn = "parseDailyNote" /\ output = NotApplied
  /\ output' = [fn |-> input.fn, value |-> GeneratedDocument(input.arg)]
  /\ UNCHANGED <<input, settingsVars, response, aiProvider, noteEntries, journals,
                 isProcessing, lastProcessed, pc, kind, notes, idx, processedCount,
                 errors, attempted, result, req>>

\* Pieces of the templates: literal text.
Dash == <<"-">>
DotMd == <<".", "m", "d">>
JournalWord == <<"J", "o", "u", "r", "n", "a", "l">>
LogWord == <<"L", "o", "g">>

\* The templates 'dddd-YYYY-MM-DD.md' and 'Journal-MMMM-DD-YYYY.md'.
WeekdayTemplate == dddd \o Dash \o YYYY \o Dash \o MM \o Dash \o DD \o DotMd
MonthNameTemplate == JournalWord \o Dash \o MMMM \o Dash \o DD \o Dash \o YYYY \o DotMd

\* The default 'Journal-YYYY-MM-DD.md', the same without extension,
\* 'Log-YYYY-MM-DD-HH-mm-ss.md', and 'YY-MMM-ddd-M-D-H-h-hh.md' with the
\* remaining tokens.
Templates ==
  {WeekdayTemplate, MonthNameTemplate,
   JournalWord \o Dash \o YYYY \o Dash \o MM \o Dash \o DD \o DotMd,
   JournalWord \o Dash \o YYYY \o Dash \o MM \o Dash \o DD,
   LogWord \o Dash \o YYYY \o Dash \o MM \o Dash \o DD \o Dash \o HH \o Dash \o mm
     \o Dash \o ss \o DotMd,
   YY \o Dash \o MMM \o Dash \o ddd \o Dash \o <<"M">> \o Dash \o <<"D">> \o Dash
     \o <<"H">> \o Dash \o <<"h">> \o Dash \o hh \o DotMd}

\* Dates of 2025: every month, seven days in a row and a two-digit day (so
\* every weekday in every month), midnight and an afternoon hour.
CalendarDates ==
  [year : {2025}, month : 1..12, day : (2..7) \cup {15}, hours : {0, 15},
   minutes : {30}, seconds : {45}]

\* A call generateFilename(date, template).
CallGenerateFilename ==
  /\ input.fn = "generateFilename" /\ output = NotApplied
  /\ output' = [fn |-> input.fn,
                value |-> GenerateFilenameText(input.arg.date, input.arg.template)]
  /\ UNCHANGED <<input, settingsVars, response, aiProvider, noteEntries, journals,
                 isProcessing, lastProcessed, pc, kind, notes, idx, processedCount,
                 errors, attempted, result, req>>

\* Names to sanitize: a start, 'a', a middle, 'b' and an end, where the
\* start is dots or whitespace, the middle an invalid character or a run of
\* whitespace, and the end dots, an extension or whitespace.
NameStarts == {<<>>, <<".">>, <<".", ".">>, <<" ">>, <<" ", ".">>}
NameMiddles ==
  {<<>>, <<" ">>, <<" ", " ">>, <<" ", "\n", " ">>} \cup {<<c>> : c \in InvalidChars}
NameEnds == {<<>>, <<".">>, <<".", ".", ".">>, DotMd, <<" ">>, <<".", " ">>}

NameOf(parts) == parts[1] \o <<"a">> \o parts[2] \o <<"b">> \o parts[3]

\* A call sanitizeFilename(filename).
CallSanitizeFilename ==
  /\ input.fn = "sanitizeFilename" /\ output = NotApplied
  /\ output' = [fn |-> input.fn, value |-> SanitizeFilename(input.arg)]
  /\ UNCHANGED <<input, settingsVars, response, aiProvider, noteEntries, journals,
                 isProcessing, lastProcessed, pc, kind, notes, idx, processedCount,
                 errors, attempted, result, req>>

\* The journal entries createJournalEntry builds: a title, the processed
\* content (with line-break runs of one to four), the note's date and
\* file, a sentiment or none, and the coordinates extracted from a text of
\* up to two written pairs (none, one or several coordinates).
EntryContents ==
  {<<"a">>, <<"a", "\n", "b">>, <<"a", "\n", "\n", "b", "\n", "\n", "\n", "c">>,
   <<"\n", "\n", "\n", "\n", "a", "\n", "\n", "\n">>}

EntrySentiments == {<<>>, <<"Happy">>, <<"Very", " ", "Sad">>}

EntryCoordinates ==
  {ExtractCoordinates(TextOf(ps)) :
     ps \in UNION {[1..k -> [shape : {"bare", "bracket"},
                             lat : {[sign |-> "", word |-> "40.7128"],
                                    [sign |-> "-", word |-> "40.7128"]},
                             lng : {[sign |-> "-", word |-> "74.0060"]}]] :
                     k \in 0..2}}

JournalEntries ==
  [title : {<<"September", " ", "2nd,", " ", "2025">>}, content : EntryContents,
   date : {<<"2025-09-02">>}, sourceFile : {<<"Daily Notes/2025-09-02.md">>},
   sentiment : EntrySentiments, coordinates : EntryCoordinates]

\* A call formatJournalContent(journalEntry).
CallFormatJournalContent ==
  /\ input.fn = "formatJournalContent" /\ output = NotApplied
  /\ output' = [fn |-> input.fn, value |-> FormatJournalContent(input.arg)]
  /\ UNCHANGED <<input, settingsVars, response, aiProvider, noteEntries, journals,
                 isProcessing, lastProcessed, pc, kind, notes, idx, processedCount,
                 errors, attempted, result, req>>

TextInputs ==
  {[fn |-> "parseSentimentFromResponse", arg |-> r, pieces |-> <<>>] : r \in Responses}
    \cup {[fn |-> "processContent", arg |-> r, pieces |-> <<>>] : r \in Responses}
    \cup {[fn |-> "extractCoordinates", arg |-> TextOf(ps), pieces |-> ps] :
            ps \in PieceLists}
    \cup {[fn |-> "parseDailyNote", arg |-> n.content, pieces |-> n.pieces] :
            n \in NoteContents}
    \cup {[fn |-> "generateFilename", arg |-> [date |-> d, template |-> t],
           pieces |-> <<>>] : d \in CalendarDates, t \in Templates}
    \cup {[fn |-> "sanitizeFilename", arg |-> NameOf(<<st, mi, en>>),
           pieces |-> <<st, mi, en>>] :
            st \in NameStarts, mi \in NameMiddles, en \in NameEnds}
    \cup {[fn |-> "formatJournalContent", arg |-> e, pieces |-> <<>>] :
            e \in JournalEntries}

InitText ==
  /\ input \in TextInputs
  /\ output = NotApplied
  /\ aiProvider = "openai"
  /\ noteEntries = [n \in Notes |-> 1]
  /\ journals = {}
  /\ isProcessing = FALSE
  /\ lastProcessed = FALSE
  /\ pc = [c \in Calls |-> "idle"]
  /\ kind = [c \in Calls |-> "none"]
  /\ notes = [c \in Calls |-> <<>>]
  /\ idx = [c \in Calls |-> 0]
  /\ processedCount = [c \in Calls |-> 0]
  /\ errors = [c \in Calls |-> <<>>]
  /\ attempted = [c \in Calls |-> <<>>]
  /\ result = [c \in Calls |-> NoResult]
  /\ req = [c \in Calls |-> IdleReq]
  /\ response = [c \in Calls |-> NoBody]
  /\ dateFormat = "YYYY-MM-DD"
  /\ journalFileNameFormat = "Journal-YYYY-MM-DD.md"
  /\ fileName = [n \in Notes |-> [day |-> n, hour |-> 0]]
  /\ unreadable = {}
  /\ PluginLoaded

NextText ==
  \/ CallParseSentiment
  \/ CallExtractCoordinates
  \/ CallParseDailyNote
  \/ CallGenerateFilename
  \/ CallSanitizeFilename
  \/ CallFormatJournalContent
  \/ CallProcessContent

SpecText == InitText /\ [][NextText]_vars

\* Fairness: timers fire, an aborted fetch rejects, host file operations and
\* body reads complete, continuations run. Nothing obliges the backend to
\* answer a pending request, and nothing obliges a trigger to occur. Strong
\* fairness: an event that is due is handled even if triggers keep arriving
\* (each steps in front of it only for the length of its own continuation).
Fairness ==
  /\ SF_vars(\E c \in Calls : ScanDone(c) \/ ScanThrows(c))
  /\ SF_vars(\E c \in Calls : LatestScanDone(c) \/ LatestScanThrows(c))
  /\ SF_vars(\E c \in Calls : FetchAborted(c))
  /\ SF_vars(\E c \in Calls : Wake(c))
  /\ SF_vars(\E c \in Calls : TimeoutElapses(c))
  /\ SF_vars(\E c \in Calls, body \in Bodies : BodyRead(c, body))
  /\ SF_vars(\E c \in Calls, ok \in BOOLEAN : WriteDone(c, ok))
  /\ SF_vars(\E c \in Calls : Collect(c))

FairSpec == Spec /\ Fairness

\* ------------------------------------------------------------ properties
SchedulerKinds == {"notes", "latest"}

\* Invocation c is past the isProcessing guard and has not returned.
InBatch(c) == kind[c] \in SchedulerKinds /\ pc[c] \in {"scan", "http", "body", "write"}

\* Invocation c has just returned the guard's busy result.
Rejected(c) == pc[c] = "returned" /\ result[c] = BusyResult

\* C1: at most one invocation of processNotes / processLatestNote is past the
\* isProcessing guard at any time, and the flag is raised while it is.
C1_SingleFlight ==
  /\ Cardinality({c \in Calls : InBatch(c)}) <= 1
  /\ \A c \in Calls : InBatch(c) => isProcessing

\* C1 witness: a trigger arrived while a batch was awaiting its AI request.
C1_Witness ==
  \E c, d \in Calls : c # d /\ InBatch(c) /\ pc[c] = "http" /\ Rejected(d)

\* The state of every invocation other than c, and the shared state.
OthersUnchanged(c) ==
  /\ UNCHANGED <<isProcessing, lastProcessed, journals, aiProvider, noteEntries>>
  /\ \A d \in Calls \ {c} :
       /\ pc'[d] = pc[d] /\ kind'[d] = kind[d] /\ notes'[d] = notes[d]
       /\ idx'[d] = idx[d] /\ processedCount'[d] = processedCount[d]
       /\ errors'[d] = errors[d] /\ attempted'[d] = attempted[d]
       /\ result'[d] = result[d] /\ req'[d] = req[d] /\ response'[d] = response[d]

\* C2: a processNotes call made while isProcessing is set returns at once the
\* busy result (success false, processed 0, the one busy error, duration 0),
\* leaves the flag, the documents and the in-flight batch as they are, and
\* never goes on to scan later.
C2_BusyRejection ==
  [][\A c \in Calls :
       /\ (pc[c] = "idle" /\ pc'[c] # "idle" /\ kind'[c] = "notes" /\ isProcessing)
            => /\ pc'[c] = "returned"
               /\ result'[c] = [success |-> FALSE, processed |-> 0,
                                errors |-> <<ErrorEntry("Processing already in progress",
                                                        0, "")>>,
                                duration |-> "zero"]
               /\ notes'[c] = <<>> /\ attempted'[c] = <<>> /\ req'[c] = IdleReq
               /\ isProcessing'
               /\ OthersUnchanged(c)
       /\ (Rejected(c) /\ pc'[c] # pc[c]) => pc'[c] = "idle"]_vars

\* C2 witness: a processNotes call was rejected while another batch's
\* request was in flight.
C2_Witness ==
  \E c, d \in Calls :
    /\ c # d /\ Rejected(d) /\ kind[d] = "notes"
    /\ InBatch(c) /\ kind[c] = "notes" /\ req[c].phase = "fetching" /\ isProcessing

\* C3: every batch that enters Processing eventually returns the scheduler
\* to Idle, even when the backend never answers a request.
C3_BatchTerminates ==
  \A c \in Calls : (InBatch(c) /\ kind[c] = "notes") ~> ~isProcessing

\* The files of a list of notes, in order.
FilesOf(list) == [i \in 1..Len(list) |-> list[i].file]

\* Invocation c of processNotes returned from the end of its for-loop.
LoopCompleted(c) ==
  /\ pc[c] = "returned" /\ kind[c] = "notes" /\ Len(notes[c]) > 0
  /\ \A i \in 1..Len(result[c].errors) : result[c].errors[i].what = "Failed to process"

\* C4: processNotes attempts the enumerated notes one by one in list order;
\* a failing note adds one error naming its file and the loop goes on, so at
\* the end every note is either counted in processed or named in errors.
C4_EveryNoteAccounted ==
  \A c \in Calls :
    /\ (kind[c] = "notes" /\ pc[c] \in {"http", "body", "write"})
         => /\ attempted[c] = SubSeq(FilesOf(notes[c]), 1, idx[c])
            /\ processedCount[c] + Len(errors[c]) = idx[c] - 1
    /\ LoopCompleted(c)
         => /\ attempted[c] = FilesOf(notes[c])
            /\ result[c].processed + Len(result[c].errors) = Len(notes[c])
            /\ \A i \in 1..Len(result[c].errors) :
                 /\ result[c].errors[i].file \in {notes[c][k].file : k \in 1..Len(notes[c])}
                 /\ \A j \in 1..Len(result[c].errors) :
                      i < j => result[c].errors[i].file < result[c].errors[j].file

\* C4 witness: a batch of two notes whose first note failed and whose second
\* note was processed.
C4_Witness ==
  \E c \in Calls :
    /\ LoopCompleted(c) /\ Len(notes[c]) = 2
    /\ result[c].processed = 1 /\ Len(result[c].errors) = 1
    /\ result[c].errors[1].file = notes[c][1].file
    /\ JournalPath(notes[c][2]) \in journals

\* C5: every result processNotes returns has success = (errors is empty).
C5_SuccessIffNoErrors ==
  \A c \in Calls :
    (pc[c] = "returned" /\ kind[c] = "notes")
      => (result[c].success <=> (Len(result[c].errors) = 0))

\* C5 witness: a batch that completed its loop with a failed note.
C5_Witness ==
  \E c \in Calls :
    /\ LoopCompleted(c) /\ ~result[c].success
    /\ Len(result[c].errors) > 0 /\ result[c].processed > 0

\* Invocation c has a generation request in flight at the backend.
GenerationInFlight(c) ==
  kind[c] \in SchedulerKinds /\ pc[c] = "http" /\ req[c].phase = "fetching"

\* C6: at most one generation request is in flight at any time, and a batch
\* issues the request for its next note only from the step that ends the
\* previous note (its final failed attempt, its rejected response, or the
\* completion of its document write).
C6_OneRequestAtATime ==
  [][/\ Cardinality({c \in Calls : GenerationInFlight(c)'}) <= 1
     /\ \A c \in Calls :
          (kind[c] = "notes" /\ Len(attempted[c]) >= 1
             /\ Len(attempted'[c]) > Len(attempted[c]))
            => \/ pc[c] = "write"
               \/ pc[c] = "body"
               \/ (pc[c] = "http" /\ req[c].phase = "fetching"
                     /\ req[c].attempt = req[c].retries)]_vars

\* C6 witness: the request of the second note of a batch is in flight after
\* the first note's document was written.
C6_Witness ==
  \E c \in Calls :
    /\ kind[c] = "notes" /\ GenerationInFlight(c) /\ idx[c] = 2
    /\ processedCount[c] = 1 /\ JournalPath(notes[c][1]) \in journals

\* Invocation c is a direct call whose attempts are logged.
Direct(c) == kind[c] \in DirectKinds /\ pc[c] # "idle"

\* The message class the error taxonomy assigns to a failed attempt: a
\* timeout for an aborted request, by status for a response, generic else.
ClassOfFailure(f) ==
  CASE f = "abort" -> "timed out"
    [] f \in {"401", "403"} -> "authentication failed"
    [] f = "429" -> "rate limit exceeded"
    [] f \in {"500", "502", "503"} -> "server error"
    [] OTHER -> "error"

\* C7: makeHttpRequest with budget N issues at most N requests; it succeeds
\* as soon as an attempt succeeds; when all N attempts fail it throws the
\* failure of attempt N, and processContent reports that failure's class.
C7_RetryBudget ==
  \A c \in Calls : Direct(c) =>
    /\ req[c].attempt <= req[c].retries
    /\ (kind[c] = "http" /\ pc[c] = "returned")
         => (result[c].success <=> req[c].phase = "resolved")
    /\ req[c].phase = "resolved" => req[c].thrown = NoError
    /\ req[c].phase = "rejected"
         => /\ req[c].attempt = req[c].retries
            /\ req[c].thrown.text =
                 (CASE req[c].lastFail = "abort" -> "Request timeout after"
                    [] req[c].lastFail = "network" -> "Failed to fetch"
                    [] OTHER -> "HTTP")
            /\ req[c].lastFail \in Statuses => req[c].thrown.tokens = {req[c].lastFail}
            /\ (kind[c] = "process" /\ pc[c] = "returned")
                 => /\ ~result[c].success
                    /\ result[c].errors[1].detail = ClassOfFailure(req[c].lastFail)

\* C7 witness: processContent failed after three attempts whose first and
\* last failures belong to different classes.
C7_Witness ==
  \E c \in Calls :
    /\ kind[c] = "process" /\ pc[c] = "returned" /\ req[c].phase = "rejected"
    /\ req[c].attempt = 3 /\ req[c].firstFail = "401" /\ req[c].lastFail = "500"
    /\ result[c].errors[1].detail = "server error"

\* C8: whichever attempt is in flight once the timeout has elapsed since the
\* call began is aborted, on the first attempt and on every retry alike.
C8_TimeoutAbortsInFlight ==
  \A c \in Calls :
    (pc[c] = "http" /\ req[c].phase = "fetching" /\ req[c].deadlinePassed)
      => req[c].aborted

\* The wait the retry policy prescribes after failed attempt k.
PrescribedDelay(k) ==
  CASE k = 1 -> 1000 [] k = 2 -> 2000 [] k = 3 -> 4000 [] k = 4 -> 8000
    [] OTHER -> 10000

\* C9: after failed attempt k < retries the call sleeps
\* min(1000 * 2^(k-1), 10000) ms before attempt k+1, whatever the kind of
\* failure, and it does not sleep after the final attempt.
C9_BackoffSchedule ==
  \A c \in Calls : Direct(c) =>
    /\ \A k \in 1..Len(req[c].waits) : req[c].waits[k] = PrescribedDelay(k)
    /\ req[c].phase = "sleeping"
         => Len(req[c].waits) = req[c].attempt /\ req[c].attempt < req[c].retries
    /\ req[c].phase \in {"fetching", "resolved", "rejected"}
         => Len(req[c].waits) = req[c].attempt - 1

\* C9 witness: the sixth attempt is in flight after five sleeps, the last one
\* capped, following a network failure and then status failures.
C9_Witness ==
  \E c \in Calls :
    /\ kind[c] = "http" /\ req[c].phase = "fetching" /\ req[c].attempt = 6
    /\ req[c].waits = <<1000, 2000, 4000, 8000, 10000>>
    /\ req[c].firstFail = "network" /\ req[c].lastFail = "429"

\* What of a request's state decides how retrying goes on.
RetryState(q) == [phase |-> q.phase, attempt |-> q.attempt, waits |-> q.waits]

\* C10: the status of a failed response does not influence retrying: from
\* the same state every non-success status leads to the same phase, attempt
\* count and waits; only the error carried differs.
C10_StatusBlindRetry ==
  [][\A c \in Calls :
       (/\ Direct(c) /\ req[c].phase = "fetching"
        /\ req'[c].phase \in {"sleeping", "rejected"}
        /\ req'[c].lastFail \in Statuses)
         => /\ \A s \in Statuses :
                 RetryState(OnResponseStatus(req[c], s)) = RetryState(req'[c])
            /\ req'[c].phase = "rejected"
                 => req'[c].thrown = HttpError(req'[c].lastFail)]_vars

\* C10 witness: a call that was answered 401 first went on to use its whole
\* budget of three attempts, with both sleeps.
C10_Witness ==
  \E c \in Calls :
    /\ kind[c] = "http" /\ req[c].phase = "rejected" /\ req[c].retries = 3
    /\ req[c].firstFail = "401" /\ req[c].lastFail = "404"
    /\ req[c].waits = <<1000, 2000>>

\* Invocation c's note m failed in this step: processNotes adds an error
\* naming it, processLatestNote returns its failure result.
Failing(c, m) ==
  /\ kind[c] \in SchedulerKinds /\ pc[c] \in {"http", "body", "write"}
  /\ m = CurrentNote(c).file
  /\ \/ kind[c] = "notes" /\ Len(errors'[c]) = Len(errors[c]) + 1
     \/ kind[c] = "latest" /\ pc'[c] = "returned"
          /\ result'[c].success = FALSE

RenderedPath(n) == GenerateFilename(DateOf(n), journalFileNameFormat)

\* Note n is dated before today and has log entries.
PastWithEntries(n) == DateOf(n).day < Today /\ noteEntries[n] > 0

\* Invocation c's scan completes in this step (it does not throw).
ScanCompletes(c) ==
  /\ pc[c] = "scan" /\ pc'[c] # "scan"
  /\ ~(pc'[c] = "returned" /\ Len(result'[c].errors) > 0
         /\ result'[c].errors[1].detail \in {"Failed to scan daily notes",
                                             "Failed to find recent daily note"})

\* C12: a scan leaves out a past-dated note with entries exactly when a file
\* exists at the path rendered from the note's date, whatever else is stored
\* (lastProcessed, earlier results); and after the deletion of that file,
\* nothing else changing, the note passes the scan's filter again.
C12_ProcessedIffFileExists ==
  [][/\ \A c \in Calls, n \in Notes :
          (ScanCompletes(c) /\ kind[c] = "notes" /\ PastWithEntries(n))
            => ((\A i \in 1..Len(notes'[c]) : notes'[c][i].file # n)
                  <=> RenderedPath(n) \in journals)
     /\ \A c \in Calls :
          (ScanCompletes(c) /\ kind[c] = "latest" /\ notes'[c] # <<>>)
            => RenderedPath(notes'[c][1].file) \notin journals
     /\ \A n \in Notes :
          (/\ PastWithEntries(n)
           /\ RenderedPath(n) \in journals
           /\ journals' = journals \ {RenderedPath(n)}
           /\ UNCHANGED <<isProcessing, lastProcessed, pc, kind, notes, idx,
                          processedCount, errors, attempted, result, req, response>>)
            => /\ ~Eligible(n)
               /\ Eligible(n)']_vars

\* C12 witness: a batch is at its second note after it wrote the document of
\* its first note; that document has been deleted since, and a scan would
\* select the first note again.
C12_Witness ==
  \E c \in Calls :
    /\ kind[c] = "notes" /\ pc[c] = "http" /\ idx[c] = 2 /\ processedCount[c] = 1
    /\ JournalPath(notes[c][1]) = RenderedPath(notes[c][1].file)
    /\ RenderedPath(notes[c][1].file) \notin journals
    /\ Eligible(notes[c][1].file)
    /\ lastProcessed

\* C13: for every note a batch has selected, under every date format and
\* filename template, the path createJournalEntry writes the note's document
\* to is the path the scan's existence check tested for that note.
C13_WritePathIsCheckedPath ==
  \A c \in Calls :
    (kind[c] \in SchedulerKinds /\ pc[c] \in {"http", "body", "write"})
      => JournalPath(CurrentNote(c)) = RenderedPath(CurrentNote(c).file)

\* C14: every note a scan has selected, through findUnprocessedDailyNotes or
\* findMostRecentDailyNote, carries a calendar day strictly before today's,
\* whatever its time of day and the current time of day are.
C14_OnlyPastNotesSelected ==
  \A c \in Calls : \A i \in 1..Len(notes[c]) :
    /\ fileName[notes[c][i].file].day < Today
    /\ notes[c][i].date[2] < Now.day

\* C14 witness: a batch is processing the one note it selected, dated
\* yesterday, while the folder also holds a note dated today, which has
\* entries and no document.
C14_Witness ==
  \E c \in Calls, n \in Notes :
    /\ kind[c] = "notes" /\ pc[c] = "http" /\ Len(notes[c]) = 1
    /\ fileName[notes[c][1].file].day = Today - 1
    /\ fileName[n].day = Today /\ noteEntries[n] > 0
    /\ RenderedPath(n) \notin journals

\* A line is a sentiment line: the keyword, any number of spaces, one of the
\* five labels, nothing else, in any letter case.
IsSentimentLine(line) ==
  \E k \in 0..Len(line), label \in {validSentiments[j] : j \in 1..Len(validSentiments)} :
    /\ Len(line) = k + 2
    /\ ToLowerCase(line[1]) = "sentiment:"
    /\ \A j \in 2..(k + 1) : line[j] \in Whitespace
    /\ ToLowerCase(line[k + 2]) = ToLowerCase(label)

\* The label of a sentiment line, in canonical casing.
LabelOf(line) ==
  CHOOSE label \in {validSentiments[j] : j \in 1..Len(validSentiments)} :
    ToLowerCase(label) = ToLowerCase(line[Len(line)])

\* parseSentimentFromResponse has returned for the argument.
SentimentParsed == output.fn = "parseSentimentFromResponse"

\* C15: with L the lines of the trimmed response and M the lines of L that,
\* trimmed, are sentiment lines: if M is empty the result is Neutral with the
\* whole trimmed response as content; otherwise the sentiment is the
\* canonical label of the last line of M and the content is the lines before
\* it, joined and trimmed (earlier lines of M included).
C15_LastSentimentLineWins ==
  SentimentParsed =>
    LET trimmed == Trim(input.arg)
        L == Split(trimmed)
        M == {i \in 1..Len(L) : IsSentimentLine(Trim(L[i]))}
    IN IF M = {}
       THEN output.value = [content |-> trimmed, sentiment |-> "Neutral"]
       ELSE LET last == CHOOSE i \in M : \A j \in M : j <= i IN
            /\ output.value.sentiment = LabelOf(Trim(L[last]))
            /\ output.value.content = Trim(Join(SubSeq(L, 1, last - 1)))

\* C15 witness: a response with two sentiment lines, the later one written
\* in other letter case and padded; the earlier one stays in the content.
C15_Witness ==
  /\ SentimentParsed
  /\ input.arg = <<"a", "\n", "SENTIMENT:", " ", "Happy", "\n",
                   " ", "Sentiment:", " ", " ", "VERY SAD", " ">>
  /\ output.value = [content |-> <<"a", "\n", "SENTIMENT:", " ", "Happy">>,
                     sentiment |-> "Very Sad"]

\* The body carries a generated text that is empty or whitespace only.
Blank(body) ==
  body.generated /\ \A k \in 1..Len(body.text) : body.text[k] \in Whitespace

\* C16: when the success response of a note's request carries an empty or
\* whitespace-only text, the step that reads it does not go on to the write:
\* processNotes adds the note's error (generic class) without counting the
\* note, processLatestNote returns its failure result, and no document
\* appears.
C16_BlankResponseFails ==
  [][\A c \in Calls :
       (/\ kind[c] \in SchedulerKinds /\ pc[c] = "body" /\ Blank(response[c])
        /\ pc'[c] # "body")
         => /\ pc'[c] # "write"
            /\ journals' = journals
            /\ kind[c] = "notes"
                 => /\ errors'[c] = Append(errors[c],
                                           [what |-> "Failed to process",
                                            file |-> notes[c][idx[c]].file,
                                            detail |-> "error"])
                    /\ processedCount'[c] = processedCount[c]
            /\ kind[c] = "latest"
                 => /\ pc'[c] = "returned"
                    /\ ~result'[c].success /\ result'[c].processed = 0
                    /\ result'[c].errors[1].detail = "error"]_vars

\* C16 witness: a whitespace-only text has arrived for the second note of a
\* batch whose first note is recorded as failed with a generic error; no
\* document exists.
C16_Witness ==
  \E c \in Calls :
    /\ kind[c] = "notes" /\ pc[c] = "body" /\ idx[c] = 2
    /\ response[c] = [generated |-> TRUE, text |-> <<"\n", " ">>]
    /\ errors[c] = <<[what |-> "Failed to process", file |-> notes[c][1].file,
                      detail |-> "error"]>>
    /\ processedCount[c] = 0 /\ journals = {}

\* extractCoordinates has returned for the argument.
Extracted == output.fn = "extractCoordinates"

\* The signed value of a written number, in units of 1/10000 degree.
ValueOf(n) == IF n.sign = "-" THEN 0 - NumberValue(n.word) ELSE NumberValue(n.word)

\* The piece's pair lies within -90..90 and -180..180 degrees.
InRange(piece) ==
  /\ ValueOf(piece.lat) \in (0 - 900000)..900000
  /\ ValueOf(piece.lng) \in (0 - 1800000)..1800000

\* C17: for a text that is one in-range pair written in one of the supported
\* shapes, extractCoordinates returns exactly one coordinate, with the pair's
\* lat and lng and the written text as raw.
C17_OneCoordinatePerShape ==
  (Extracted /\ Len(input.pieces) = 1 /\ InRange(input.pieces[1]))
    => output.value = <<[lat |-> ValueOf(input.pieces[1].lat),
                         lng |-> ValueOf(input.pieces[1].lng),
                         raw |-> input.arg]>>

\* C19: every coordinate extractCoordinates returns lies within -90..90 and
\* -180..180 degrees; a degree+hemisphere text yields the pair with S and W
\* (either letter case) negated; and a text that is one out-of-range pair, in
\* any shape, yields no coordinate.
C19_ReturnedCoordinatesInRange ==
  Extracted =>
    /\ \A k \in 1..Len(output.value) :
         /\ output.value[k].lat >= 0 - 900000 /\ output.value[k].lat <= 900000
         /\ output.value[k].lng >= 0 - 1800000 /\ output.value[k].lng <= 1800000
    /\ (Len(input.pieces) = 1 /\ ~InRange(input.pieces[1])) => output.value = <<>>
    /\ (/\ Len(input.pieces) = 1 /\ InRange(input.pieces[1])
        /\ input.pieces[1].shape \in {"degrees", "degrees lower case"})
         => output.value = <<[lat |-> ValueOf(input.pieces[1].lat),
                              lng |-> ValueOf(input.pieces[1].lng),
                              raw |-> input.arg]>>

\* C19 witness: of two pairs written with lower-case hemisphere letters, the
\* southern and western one is returned with both signs negative and the one
\* whose latitude is 90.5 is dropped.
C19_Witness ==
  /\ Extracted
  /\ input.pieces =
       <<[shape |-> "degrees lower case", lat |-> [sign |-> "-", word |-> "40.7128"],
          lng |-> [sign |-> "-", word |-> "74.0060"]],
         [shape |-> "degrees lower case", lat |-> [sign |-> "", word |-> "90.5"],
          lng |-> [sign |-> "-", word |-> "74.0060"]]>>
  /\ Len(output.value) = 1
  /\ output.value[1].lat = 0 - 407128 /\ output.value[1].lng = 0 - 740060

\* The raw strings of the coordinates returned.
RawsOf(coordinates) == {coordinates[k].raw : k \in 1..Len(coordinates)}

\* C20: extractCoordinates returns no two coordinates with the same raw
\* string; writing an in-range pair a second time in the same way adds
\* nothing; and every in-range pair of the text is reported under its own
\* written form, also next to the same numbers written in another shape.
C20_OneCoordinatePerRaw ==
  Extracted =>
    /\ \A j, k \in 1..Len(output.value) :
         output.value[j].raw = output.value[k].raw => j = k
    /\ \A j \in 1..Len(input.pieces) :
         InRange(input.pieces[j])
           => \E k \in 1..Len(output.value) :
                /\ output.value[k].raw = TextOf(<<input.pieces[j]>>)
                /\ output.value[k].lat = ValueOf(input.pieces[j].lat)
                /\ output.value[k].lng = ValueOf(input.pieces[j].lng)
    /\ (Len(input.pieces) = 2 /\ input.pieces[1] = input.pieces[2])
         => output.value = ExtractCoordinates(TextOf(<<input.pieces[1]>>))

\* C20 witness: a pair written bare and then once more in parentheses: the
\* bare form is matched twice and reported once, next to the parenthesized
\* form with the same numbers.
C20_Witness ==
  /\ Extracted /\ Len(input.pieces) = 2
  /\ input.pieces[1].shape = "bare" /\ InRange(input.pieces[1])
  /\ input.pieces[2].shape = "parentheses"
  /\ input.pieces[2].lat = input.pieces[1].lat
  /\ input.pieces[2].lng = input.pieces[1].lng
  /\ Len(output.value) = 2
  /\ RawsOf(output.value) = {TextOf(<<input.pieces[1]>>), TextOf(<<input.pieces[2]>>)}
  /\ output.value[1].lat = output.value[2].lat
  /\ output.value[1].lng = output.value[2].lng

\* The note of the input carries the pair [40.7128, -74.0060] in brackets.
BracketNote ==
  /\ input.fn = "parseDailyNote"
  /\ input.pieces = <<[shape |-> "bracket", lat |-> [sign |-> "", word |-> "40.7128"],
                       lng |-> [sign |-> "-", word |-> "74.0060"]]>>

\* C18: a note of two list lines, one of which contains [40.7128, -74.0060],
\* yields a document whose coordinates list has length 1 and whose
\* frontmatter carries a single location (not a locations list), and no
\* entry's content contains the bracket text any more.
C18_SingleLocationDocument ==
  (BracketNote /\ output # NotApplied)
    => /\ Len(output.value.coordinates) = 1
       /\ output.value.frontmatter.key = "location"
       /\ \A k \in 1..Len(output.value.entries) :
            \A j \in 1..Len(output.value.entries[k].content) :
              output.value.entries[k].content[j] \notin {"[", "]", "40.7128", "74.0060"}

\* The part of C18 that the code meets: both lines become entries, the
\* visit's entry has the pair as its coordinates and the bracket text is
\* gone from its content.
C18_EntriesStripped ==
  (BracketNote /\ output # NotApplied)
    => /\ Len(output.value.entries) = 2
       /\ \E k \in 1..2 :
            /\ output.value.entries[k].coordinates.lat = 407128
            /\ output.value.entries[k].coordinates.lng = 0 - 740060
            /\ output.value.entries[k].content \in
                 {<<"Visited">>, <<"Visited", " ", "today">>}
       /\ \A k \in 1..2 :
            \A j \in 1..Len(output.value.entries[k].content) :
              output.value.entries[k].content[j] \notin {"[", "]", "40.7128", "74.0060"}

\* The document of a bracket note: two coordinates with the same pair, under
\* a locations list.
C18_DoubledLocation ==
  /\ BracketNote /\ output # NotApplied
  /\ Len(output.value.coordinates) = 2
  /\ output.value.frontmatter =
       [key |-> "locations", values |-> <<<<407128, 0 - 740060>>, <<407128, 0 - 740060>>>>]

\* generateFilename was called on the given template.
Rendered(template) ==
  /\ input.fn = "generateFilename" /\ output # NotApplied
  /\ input.arg.template = template

\* '<year>', '<2-digit month>' and '<2-digit day>' of the input's date.
YearText == NumberToString(input.arg.date.year)
MonthText == PadStart(NumberToString(input.arg.date.month))
DayText == PadStart(NumberToString(input.arg.date.day))

\* C21: for every date d, 'dddd-YYYY-MM-DD.md' renders to '<full weekday
\* name of d>-<year>-<2-digit month>-<2-digit day>.md' and
\* 'Journal-MMMM-DD-YYYY.md' to 'Journal-<full month name of d>-<2-digit
\* day>-<year>.md'.
C21_TokensRendered ==
  /\ Rendered(WeekdayTemplate)
       => output.value = dayNames[GetDay(input.arg.date) + 1] \o Dash \o YearText
                           \o Dash \o MonthText \o Dash \o DayText \o DotMd
  /\ Rendered(MonthNameTemplate)
       => output.value = JournalWord \o Dash \o monthNames[input.arg.date.month]
                           \o Dash \o DayText \o Dash \o YearText \o DotMd

\* The rendering of Monday the 3rd of March 2025, 15 h, under
\* 'dddd-YYYY-MM-DD.md': '3onday-2025-03-03.md', the M of Monday replaced by
\* the month number.
C21_MondayRendered ==
  /\ Rendered(WeekdayTemplate)
  /\ input.arg.date = [year |-> 2025, month |-> 3, day |-> 3, hours |-> 15,
                       minutes |-> 30, seconds |-> 45]
  /\ output.value = <<"3", "o", "n", "d", "a", "y", "-", "2", "0", "2", "5", "-", "0",
                      "3", "-", "0", "3", ".", "m", "d">>

\* The renderings the code gets right: templates whose names hold none of
\* the one-letter tokens M, D, H, h (the test's Tuesday in September among
\* them).
C21_RenderedWithoutTokenLetters ==
  LET Clean(name) == \A k \in 1..Len(name) : name[k] \notin {"M", "D", "H", "h"}
  IN /\ (Rendered(WeekdayTemplate) /\ Clean(dayNames[GetDay(input.arg.date) + 1]))
          => output.value = dayNames[GetDay(input.arg.date) + 1] \o Dash \o YearText
                              \o Dash \o MonthText \o Dash \o DayText \o DotMd
     /\ (Rendered(MonthNameTemplate) /\ Clean(monthNames[input.arg.date.month]))
          => output.value = JournalWord \o Dash \o monthNames[input.arg.date.month]
                              \o Dash \o DayText \o Dash \o YearText \o DotMd

\* sanitizeFilename was called.
Sanitized == input.fn = "sanitizeFilename" /\ output # NotApplied

\* The name has an extension: a dot with at least one character after it.
HasExtension(name) == \E k \in 1..(Len(name) - 1) : name[k] = "."

\* No invalid character, no whitespace but single spaces inside the name.
CleanName(name) ==
  /\ \A k \in 1..Len(name) : name[k] \notin InvalidChars /\ name[k] # "\n"
  /\ \A k \in 1..(Len(name) - 1) : ~(name[k] = " " /\ name[k + 1] = " ")
  /\ name # <<>> => name[1] # " " /\ name[Len(name)] # " "

\* C22 as stated: the sanitized name has no illegal character and no
\* whitespace run, does not start with a dot, and has an extension (.md if
\* it had none).
C22_ExtensionForced ==
  Sanitized
    => /\ CleanName(output.value)
       /\ output.value # <<>> /\ output.value[1] # "."
       /\ HasExtension(output.value)

\* C22, amended: every illegal character becomes '-', every whitespace run
\* one space, dots at the very start are removed, a run of dots at the very
\* end becomes '.md', and the result is trimmed; a name that does not end in
\* a dot is given no extension, and dots next to leading or trailing
\* whitespace stay.
C22_SanitizedName ==
  Sanitized
    => LET start == input.pieces[1]
           middle == input.pieces[2]
           end == input.pieces[3]
       IN /\ CleanName(output.value)
          /\ output.value =
               (IF start = <<" ", ".">> THEN <<".">> ELSE <<>>)
                 \o <<"a">>
                 \o (IF middle = <<>> THEN <<>>
                     ELSE IF middle[1] \in InvalidChars THEN <<"-">> ELSE <<" ">>)
                 \o <<"b">>
                 \o (IF end \in {<<".">>, <<".", ".", ".">>, DotMd} THEN DotMd
                     ELSE IF end = <<".", " ">> THEN <<".">> ELSE <<>>)

\* C22 witness: 'a?b' becomes 'a-b', without an extension.
C22_Witness ==
  /\ Sanitized
  /\ input.arg = <<"a", "?", "b">>
  /\ output.value = <<"a", "-", "b">>

\* formatJournalContent was called.
Formatted == input.fn = "formatJournalContent" /\ output # NotApplied

\* The metadata line `key: "text"`.
FieldLine(key, text) == <<key, ":", " ", "\"">> \o text \o <<"\"", "\n">>

\* The text of the k-th coordinate of the entry, `[lat, lng]`.
CoordinateText(k) ==
  <<"[">> \o NumberText(input.arg.coordinates[k].lat) \o <<",", " ">>
    \o NumberText(input.arg.coordinates[k].lng) \o <<"]">>

RECURSIVE LocationItems(_)
\* The list items of the coordinates from the k-th on, in extraction order.
LocationItems(k) ==
  IF k > Len(input.arg.coordinates) THEN <<>>
  ELSE <<" ", " ", "-", " ", "\"">> \o CoordinateText(k) \o <<"\"", "\n">>
         \o LocationItems(k + 1)

RECURSIVE WithoutThirdBreaks(_, _)
\* The text from position k on without every line break that follows two
\* line breaks.
WithoutThirdBreaks(text, k) ==
  IF k > Len(text) THEN <<>>
  ELSE (IF k >= 3 /\ text[k] = "\n" /\ text[k - 1] = "\n" /\ text[k - 2] = "\n"
        THEN <<>> ELSE <<text[k]>>)
         \o WithoutThirdBreaks(text, k + 1)

\* C23: the document begins with the metadata block, whose fields are date,
\* source, created, then sentiment when present, then a single location
\* field for exactly one coordinate or a locations list (one item per
\* coordinate, in extraction order) for several, and none for none; the
\* block is followed by a blank line, the '# <title>' heading, a blank line
\* and the processed content with runs of 3 or more newlines collapsed to 2.
C23_DocumentLayout ==
  Formatted
    => output.value =
         <<"---", "\n">>
           \o FieldLine("date", input.arg.date)
           \o FieldLine("source", input.arg.sourceFile)
           \o FieldLine("created", <<"now">>)
           \o (IF input.arg.sentiment # <<>>
               THEN FieldLine("sentiment", input.arg.sentiment) ELSE <<>>)
           \o (IF Len(input.arg.coordinates) = 1
               THEN FieldLine("location", CoordinateText(1))
               ELSE IF Len(input.arg.coordinates) > 1
               THEN <<"locations", ":", "\n">> \o LocationItems(1)
               ELSE <<>>)
           \o <<"---", "\n", "\n", "#", " ">> \o input.arg.title \o <<"\n", "\n">>
           \o WithoutThirdBreaks(input.arg.content, 1)

\* C23 witness: an entry with a sentiment, two coordinates and line-break
\* runs of two and three: the document lists both locations after the
\* sentiment and its body has the run of three collapsed.
C23_Witness ==
  /\ Formatted
  /\ input.arg.sentiment = <<"Happy">>
  /\ Len(input.arg.coordinates) = 2
  /\ input.arg.coordinates[1].lat # input.arg.coordinates[2].lat
  /\ input.arg.content = <<"a", "\n", "\n", "b", "\n", "\n", "\n", "c">>
  /\ \E k \in 1..Len(output.value) :
       /\ SubSeq(output.value, k, Len(output.value))
            = <<"a", "\n", "\n", "b", "\n", "\n", "c">>
       /\ \E j \in 1..k : output.value[j] = "locations"

\* File n passes the scan: its name has a date before today, no document
\* exists for that day, it can be read and it has log entries.
PassesScan(n) ==
  /\ fileName[n] # NoDateName
  /\ fileName[n].day < Today
  /\ <<"Journal", fileName[n].day>> \notin journals
  /\ n \notin unreadable
  /\ noteEntries[n] > 0

\* C24: when the scan of processNotes ends, either it found every file that
\* has a dated name, lies in the past, has no document, can be read and has
\* entries, in enumeration order, the undated and unreadable files skipped
\* and the files after them still examined; or it failed as a whole, and
\* processNotes returns success=false with the one error 'Processing cycle
\* failed', processed=0 and the single-flight guard released.
C24_ScanSkipsBadFiles ==
  [][\A c \in Calls :
       (pc[c] = "scan" /\ kind[c] = "notes" /\ pc'[c] # "scan")
         => \/ FilesOf(notes'[c]) = SelectSeq(FilesInFolder, PassesScan)
            \/ /\ pc'[c] = "returned"
               /\ result'[c] = [success |-> FALSE, processed |-> 0,
                                errors |-> <<ErrorEntry("Processing cycle failed", 0,
                                                        "Failed to scan daily notes")>>,
                                duration |-> "measured"]
               /\ notes'[c] = <<>>
               /\ ~isProcessing']_vars

\* C24 witness: the first file cannot be read, the second is found and its
\* request is under way.
C24_Witness ==
  \E c \in Calls :
    /\ kind[c] = "notes" /\ pc[c] = "http"
    /\ 1 \in unreadable /\ fileName[1].day = Today - 1 /\ journals = {}
    /\ FilesOf(notes[c]) = <<2>>

\* A scan that failed as a whole has returned, the guard released.
C24_ScanFailed ==
  \E c \in Calls :
    /\ kind[c] = "notes" /\ pc[c] = "returned" /\ ~isProcessing
    /\ result[c].errors # <<>>
    /\ result[c].errors[1].detail = "Failed to scan daily notes"

\* processContent has returned or thrown for the generated text.
ContentProcessed == output.fn = "processContent"

\* C30: every result processContent returns for a response that passes
\* validation has a non-empty content, so createJournalEntry never gets an
\* empty body.
C30_ContentNotEmpty ==
  (ContentProcessed /\ output.value.ok) => output.value.value.content # <<>>

\* C30: the response that is nothing but a sentiment line passes validation
\* and is returned with an empty content.
C30_EmptyContent ==
  /\ ContentProcessed
  /\ input.arg = <<"SENTIMENT:", " ", "Happy">>
  /\ output.value = Returned([content |-> <<>>, sentiment |-> "Happy"])

\* Batch c completes a successful write of its current note in this step.
BatchWrites(c) ==
  /\ kind[c] = "notes" /\ pc[c] = "write"
  /\ processedCount'[c] = processedCount[c] + 1

\* The current note of batch c goes to a document that an earlier note of
\* the same batch has already been written to.
WritesOver(c) ==
  /\ JournalPath(CurrentNote(c)) \in journals
  /\ \E j \in 1..(idx[c] - 1) : JournalPath(notes[c][j]) = JournalPath(CurrentNote(c))

\* C27: within one batch no destination path is written more than once: a
\* successful write of a batch never goes to a document that an earlier note
\* of the same batch was written to.
C27_NoPathWrittenTwice ==
  [][\A c \in Calls : BatchWrites(c) => ~WritesOver(c)]_vars

\* C27: two source files carry the same date, one batch lists both, has
\* written the first and is about to write the second to the same document.
C27_SecondWritePending ==
  \E c \in Calls :
    /\ kind[c] = "notes" /\ pc[c] = "write" /\ idx[c] = 2
    /\ processedCount[c] = 1
    /\ DateOf(notes[c][1].file) = DateOf(notes[c][2].file)
    /\ JournalPath(notes[c][2]) \in journals

\* C25: when the check frequency has been changed in the settings tab while
\* the scheduler runs and the save has completed, the interval timer in
\* force is one made with the new frequency.
C25_IntervalFollowsFrequency ==
  (saves = <<>> /\ intervalId # NullId) => intervalId = checkFrequency

\* C25: the frequency was changed to 30 minutes, saveSettings has run
\* updateSettings, and the interval made with 60 minutes is still the one
\* in force.
C25_StaleInterval ==
  /\ lifecycle = "loaded" /\ saves = <<>>
  /\ checkFrequency = 30 /\ intervalId = DefaultCheckFrequency

\* C28: once onunload has called stop(), no timer of the scheduler calls
\* processNotes: neither the interval nor the initial delayed run.
C28_NoRunAfterStop ==
  [][lifecycle = "unloaded"
       => \A c \in Calls : ~IntervalFires(c) /\ ~InitialRunFires(c)]_vars

\* C28: the plugin is unloaded, the interval is cleared, and the initial
\* delayed run of start() is still pending.
C28_InitialRunPending ==
  lifecycle = "unloaded" /\ intervalId = NullId /\ initialRuns = 1

\* C28: from the moment stop() has returned no interval timer is in force.
C28_IntervalCleared == lifecycle = "unloaded" => intervalId = NullId

\* The notes of batch c that are still to be written: those after the one
\* whose request is out or whose response is being read.
RemainingNotes(c) ==
  IF kind[c] = "notes" /\ pc[c] \in {"http", "body"}
  THEN {notes[c][k] : k \in (idx[c] + 1)..Len(notes[c])}
  ELSE {}

\* C26: a batch uses one configuration: no step taken while a batch is in
\* flight changes the path a remaining note of that batch will be written to.
C26_BatchKeepsPaths ==
  [][\A c \in Calls : \A note \in RemainingNotes(c) :
       GenerateFilename(LocalDate(note.date), journalFileNameFormat')
         = JournalPath(note)]_vars

\* C26: the first note of a batch of two was written to the path without
\* the hour, the template was changed while the batch was in flight, and the
\* second note is about to be written to a path with the hour.
C26_SecondNoteUnderNewFormat ==
  \E c \in Calls :
    /\ kind[c] = "notes" /\ pc[c] = "write" /\ idx[c] = 2
    /\ <<"Journal", 1>> \in journals
    /\ JournalPath(CurrentNote(c)) = <<"Journal", 2, 0>>

\* The fetch started for the provider completes in this step.
FetchCompletes(provider) == provider \in fetches /\ provider \notin fetches'

\* C29: a model-list fetch that completes for a provider other than the one
\* selected at that moment changes neither aiConfig.model nor the options of
\* the model dropdown.
C29_StaleFetchIgnored ==
  [][\A p \in Providers :
       (FetchCompletes(p) /\ p # aiProvider) => (model' = model /\ shown' = shown)]_vars

\* C29: OpenAI is selected, its fallback list was shown, and the fetch
\* started for Ollama has filled the dropdown with Ollama's models and set
\* aiConfig.model to the first of them.
C29_ModelOfOtherProvider ==
  /\ aiProvider = "openai"
  /\ "ollama" \notin fetches
  /\ shown = <<ModelName("ollama", 2), ModelName("ollama", 3)>>
  /\ model = ModelName("ollama", 2)

\* C29: a fetch that completes for the selected provider leaves in
\* aiConfig.model a model of the list it fetched, or the model as it was.
C29_FreshFetchApplied ==
  [][\A p \in Providers : \A fetched \in FetchResults(p) :
       (FetchModelsDone(p, fetched) /\ fetched.success)
         => ModelsInclude(fetched.models, model')]_vars

====
